---- MODULE Spec2Model ----
(***************************************************************************)
(* State-machine model of the SportAI Suite authentication, session,      *)
(* credential-store and audit mechanism (src/sportai-production.py).      *)
(*                                                                         *)
(* Time is counted in whole seconds.  The characters of the strings that  *)
(* the code inspects character by character (passwords, e-mail addresses) *)
(* are given by chars.  Python's None is the empty tuple and an ISO       *)
(* timestamp string is a one-element tuple holding the instant.           *)
(***************************************************************************)
EXTENDS Integers, Sequences, FiniteSets, TLC

(***************************************************************************)
(* Program constants                                                       *)
(***************************************************************************)
\* SecurityManager.__init__
max_login_attempts == 5
lockout_duration == 900
session_timeout == 3600
min_length == 8

(***************************************************************************)
(* Bounds of the model                                                     *)
(***************************************************************************)
\* number of clock advances in one behaviour
MaxTicks == 2
\* saturation point of the history counter wrong_streak
MaxStreak == 6
MaxFaults == 1

\* the clock advances by one of these amounts: one second, one second less
\* than the lockout duration, the session timeout
TimeSteps == {1, lockout_duration - 1, session_timeout}

(***************************************************************************)
(* Values                                                                  *)
(***************************************************************************)
None == <<>>

\* datetime.isoformat() / datetime.fromisoformat(): the stored value is a
\* non-empty (truthy) string from which the instant is parsed back
isoformat(t) == <<t>>
fromisoformat(s) == s[1]

Upper == {"A", "B", "Q", "Z"}
Lower == {"a", "b", "c", "d", "e", "f", "i", "k", "l", "m", "n", "o", "t", "x", "y"}
Digit == {"1", "2", "3", "9"}
\* the character class of the regular expression in validate_password_strength
Special == {"!", "@", "#", "$", "%", "^", "&", "*", "(", ")", ",", ".", "?", "\"", ":", "{", "}", "|", "<", ">"}

\* the key written by create_default_users
ADMIN_EMAIL == "admin@facility.com"
E1 == "a@x.com"
\* no @
E_BAD == "ax.com"

\* a value of secrets.token_urlsafe(12): 16 characters of [A-Za-z0-9_-]
DEFAULT_PW == "kQ3x_9Bmlt-2aZbA"
PW_STRONG == "Abcdef1!"
PW_OTHER == "Bbcdef1!"
\* too short, no uppercase letter, no digit, no special character
PW_WEAK == "abc"
\* no special character
PW_NOSPECIAL == "Abcdef12"

\* the characters of the strings above
chars(s) ==
    CASE s = "admin@facility.com" ->
            <<"a", "d", "m", "i", "n", "@", "f", "a", "c", "i", "l", "i", "t", "y",
              ".", "c", "o", "m">>
      [] s = "a@x.com" -> <<"a", "@", "x", ".", "c", "o", "m">>
      [] s = "ax.com" -> <<"a", "x", ".", "c", "o", "m">>
      [] s = "kQ3x_9Bmlt-2aZbA" ->
            <<"k", "Q", "3", "x", "_", "9", "B", "m", "l", "t", "-", "2", "a", "Z",
              "b", "A">>
      [] s = "Abcdef1!" -> <<"A", "b", "c", "d", "e", "f", "1", "!">>
      [] s = "Bbcdef1!" -> <<"B", "b", "c", "d", "e", "f", "1", "!">>
      [] s = "abc" -> <<"a", "b", "c">>
      [] s = "Abcdef12" -> <<"A", "b", "c", "d", "e", "f", "1", "2">>
      [] s = "Abcde1!" -> <<"A", "b", "c", "d", "e", "1", "!">>
      [] s = "abcdef1!" -> <<"a", "b", "c", "d", "e", "f", "1", "!">>
      [] s = "ABQZABQ1!" -> <<"A", "B", "Q", "Z", "A", "B", "Q", "1", "!">>
      [] s = "Abcdefa!" -> <<"A", "b", "c", "d", "e", "f", "a", "!">>
      [] s = "Abcdef1_" -> <<"A", "b", "c", "d", "e", "f", "1", "_">>
      [] s = "12391239" -> <<"1", "2", "3", "9", "1", "2", "3", "9">>
      [] s = "" -> <<>>

Roles == {"user", "staff", "manager", "admin"}

LoginEmails == {ADMIN_EMAIL, E1}
LoginPasswords == {DEFAULT_PW, PW_STRONG, PW_OTHER}
ConcPasswords == {DEFAULT_PW, PW_OTHER}
NewPasswords == {PW_STRONG, PW_WEAK, PW_NOSPECIAL}
AdminNewEmails == {ADMIN_EMAIL, E1}

\* submissions of the registration form
Form(email, password, password_confirm, names_filled, terms) ==
    [email |-> email, password |-> password, password_confirm |-> password_confirm,
     names_filled |-> names_filled, terms |-> terms]

RegistrationForms ==
    {Form(E1, PW_STRONG, PW_STRONG, TRUE, TRUE),
     Form(E1, PW_WEAK, PW_WEAK, TRUE, TRUE),
     Form(ADMIN_EMAIL, PW_STRONG, PW_STRONG, TRUE, TRUE),
     Form(ADMIN_EMAIL, PW_WEAK, PW_WEAK, TRUE, TRUE),
     Form(E_BAD, PW_STRONG, PW_STRONG, TRUE, TRUE),
     Form(E_BAD, PW_WEAK, PW_WEAK, TRUE, TRUE),
     Form("", PW_STRONG, PW_STRONG, TRUE, TRUE),
     Form(E1, PW_STRONG, PW_WEAK, TRUE, TRUE),
     Form(E1, PW_STRONG, PW_STRONG, FALSE, TRUE),
     Form(E1, PW_STRONG, PW_STRONG, TRUE, FALSE)}
AdminNewRoles == {"user", "admin"}
ChangePasswords == {PW_OTHER, PW_WEAK}

(***************************************************************************)
(* SecurityManager: pure functions                                         *)
(***************************************************************************)
pepper == "SportAI_Secure_2025"

\* variant of hash_password whose digest does not depend on the password
hash_password_of_salt_only(salt, password) == <<"pbkdf2_hmac", "", salt, pepper>>

\* PBKDF2 over password + salt + pepper, keyed by the salt: the digest is
\* determined by, and (as a key-derivation function) determines, its inputs
hash_password(salt, password) == <<"pbkdf2_hmac", password, salt, pepper>>

verify_password(salt, stored_hash, provided_password) ==
    stored_hash = hash_password(salt, provided_password)

HasChar(password, class) ==
    \E i \in 1..Len(chars(password)) : chars(password)[i] \in class

\* variant of validate_password_strength that returns at the first violation
validate_password_strength_first_error(password) ==
    IF Len(chars(password)) < min_length
    THEN <<"Password must be at least 8 characters">>
    ELSE IF ~HasChar(password, Upper)
    THEN <<"Password must contain at least one uppercase letter">>
    ELSE IF ~HasChar(password, Lower)
    THEN <<"Password must contain at least one lowercase letter">>
    ELSE IF ~HasChar(password, Digit)
    THEN <<"Password must contain at least one digit">>
    ELSE IF ~HasChar(password, Special)
    THEN <<"Password must contain at least one special character">>
    ELSE <<>>

\* the list `errors`, in the order the checks append to it
validate_password_strength_errors(password) ==
    (IF Len(chars(password)) < min_length
       THEN <<"Password must be at least 8 characters">> ELSE <<>>)
    \o (IF ~HasChar(password, Upper)
       THEN <<"Password must contain at least one uppercase letter">> ELSE <<>>)
    \o (IF ~HasChar(password, Lower)
       THEN <<"Password must contain at least one lowercase letter">> ELSE <<>>)
    \o (IF ~HasChar(password, Digit)
       THEN <<"Password must contain at least one digit">> ELSE <<>>)
    \o (IF ~HasChar(password, Special)
       THEN <<"Password must contain at least one special character">> ELSE <<>>)

\* the pair (len(errors) == 0, errors)
validate_password_strength(password) ==
    [valid |-> Len(validate_password_strength_errors(password)) = 0,
     errors |-> validate_password_strength_errors(password)]

\* "\n".join(errors): the messages with a newline between neighbours
RECURSIVE join_lines(_)
join_lines(errors) ==
    IF Len(errors) = 0 THEN <<>>
    ELSE IF Len(errors) = 1 THEN <<errors[1]>>
    ELSE <<errors[1], "\n">> \o join_lines(Tail(errors))

\* the log_entry of create_audit_log; st.session_state has no top-level
\* key 'session_id', so .get('session_id', 'N/A') yields the default
create_audit_log(user_email, action, details) ==
    [user |-> user_email, action |-> action, details |-> details,
     session_id |-> "N/A"]

WordChar == Upper \cup Lower \cup Digit \cup {"_"}
AddrChar == WordChar \cup {".", "-"}

\* re.match(r'^[\w\.-]+@[\w\.-]+\.\w+$', email)
email_format_ok(email) ==
    LET c == chars(email) IN
    \E i \in 1..Len(c), j \in 1..Len(c) :
        /\ 1 < i /\ i + 1 < j /\ j < Len(c)
        /\ c[i] = "@" /\ c[j] = "."
        /\ \A k \in 1..(i - 1) : c[k] \in AddrChar
        /\ \A k \in (i + 1)..(j - 1) : c[k] \in AddrChar
        /\ \A k \in (j + 1)..Len(c) : c[k] \in WordChar

(***************************************************************************)
(* ConfigurationManager.  A configuration maps section names to mappings   *)
(* from keys to values; the file holds what json.dump wrote of it.         *)
(***************************************************************************)
\* the sections of _create_default_config that the configuration page
\* edits, with the keys it edits and one it does not
default_config ==
    [facility |-> [name |-> "Sports Complex", type |-> "multi-sport",
                   timezone |-> "America/Chicago"],
     features |-> [ai_modules |-> TRUE, advanced_analytics |-> TRUE,
                   multi_facility |-> FALSE, api_access |-> TRUE,
                   white_label |-> TRUE],
     branding |-> [primary_color |-> "#1E40AF", secondary_color |-> "#3B82F6",
                   logo_url |-> None, facility_name |-> "Your Sports Complex"]]

\* d[k] = v on a dict: the key is replaced or added
setitem(d, k, v) == [x \in DOMAIN d \cup {k} |-> IF x = k THEN v ELSE d[x]]

\* variant of update_config that assigns without testing for the key
update_config_unchecked(config, file, section, key, value) ==
    IF section \in DOMAIN config
    THEN LET updated == setitem(config, section, setitem(config[section], key, value))
         IN  [config |-> updated, file |-> updated]
    ELSE [config |-> config, file |-> file]

\* update_config(section, key, value) with self.config = config and the
\* configuration file holding `file`: the configuration in memory and the
\* content of the file afterwards
update_config(config, file, section, key, value) ==
    IF section \in DOMAIN config /\ key \in DOMAIN config[section]
    THEN LET updated == setitem(config, section, setitem(config[section], key, value))
         IN  [config |-> updated, file |-> updated]
    ELSE [config |-> config, file |-> file]

(***************************************************************************)
(* LicenseManager                                                          *)
(***************************************************************************)
\* seconds per day: timedelta.days counts whole days
DAY == 86400

\* a stored subscription.valid_until that datetime.fromisoformat cannot
\* parse: null, and a string that is no date
BAD_DATE == <<"2025-13-45", "ValueError">>
parses(stored) == Len(stored) = 1

\* variant of validate_license that takes the license for expired at the
\* instant of valid_until
validate_license_expired_at(license_exists, stored, t) ==
    IF ~license_exists
    THEN [value |-> FALSE, message |-> <<"No license file found">>]
    ELSE IF ~parses(stored)
    THEN [value |-> FALSE, message |-> <<"Invalid license">>]
    ELSE LET valid_until == fromisoformat(stored)
             days_remaining == (valid_until - t) \div DAY
         IN  IF t >= valid_until
             THEN [value |-> FALSE, message |-> <<"License expired on ", valid_until>>]
             ELSE IF days_remaining < 7
             THEN [value |-> TRUE,
                   message |-> <<"License expires in ", days_remaining, " days">>]
             ELSE [value |-> TRUE, message |-> <<"License valid until ", valid_until>>]

\* validate_license() at time t, given whether license.key exists and the
\* stored subscription.valid_until; every exception inside the try block
\* ends in (False, "Invalid license")
validate_license(license_exists, stored, t) ==
    IF ~license_exists
    THEN [value |-> FALSE, message |-> <<"No license file found">>]
    ELSE IF ~parses(stored)
    THEN [value |-> FALSE, message |-> <<"Invalid license">>]
    ELSE LET valid_until == fromisoformat(stored)
             days_remaining == (valid_until - t) \div DAY
         IN  IF t > valid_until
             THEN [value |-> FALSE, message |-> <<"License expired on ", valid_until>>]
             ELSE IF days_remaining < 7
             THEN [value |-> TRUE,
                   message |-> <<"License expires in ", days_remaining, " days">>]
             ELSE [value |-> TRUE, message |-> <<"License valid until ", valid_until>>]

\* the tiers of feature_matrix, and the entries of each
TierNames == {"starter", "professional", "enterprise"}
StarterFeatures == {"basic_management", "reporting", "scheduling"}
ProfessionalFeatures ==
    {"basic_management", "reporting", "scheduling",
     "ai_modules", "advanced_analytics", "api_access"}
EnterpriseFeatures ==
    {"basic_management", "reporting", "scheduling",
     "ai_modules", "advanced_analytics", "api_access",
     "multi_facility", "white_label", "custom_integrations"}

\* variant of feature_matrix whose professional row lacks 'reporting'
feature_matrix_gap ==
    [tier \in TierNames |->
        CASE tier = "starter" -> StarterFeatures
          [] tier = "professional" -> ProfessionalFeatures \ {"reporting"}
          [] tier = "enterprise" -> EnterpriseFeatures]

feature_matrix ==
    [tier \in TierNames |->
        CASE tier = "starter" -> StarterFeatures
          [] tier = "professional" -> ProfessionalFeatures
          [] tier = "enterprise" -> EnterpriseFeatures]

\* check_feature_access(feature) with subscription.tier = tier:
\* feature in feature_matrix.get(tier, [])
check_feature_access(tier, feature) ==
    IF tier \in DOMAIN feature_matrix THEN feature \in feature_matrix[tier] ELSE FALSE

(***************************************************************************)
(* ModuleLoader and the tools menu.  A tool name is <<icon, title>>, so    *)
(* that startswith(icon) reads the first element.  `importing` says which  *)
(* modules fail to import and with which kind of exception.                *)
(***************************************************************************)
ROBOT == "robot"

tool_categories ==
    << << <<"chart", "Central Dashboard">>, "central_dashboard" >>,
       << <<"target", "Event Control Panel">>, "event_control_panel" >>,
       << <<"stadium", "Facility Master Tracker">>, "facility_master_tracker" >>,
       << <<"people", "Membership Dashboard">>, "membership_dashboard" >>,
       << <<"money", "Sponsor Dashboard">>, "sponsor_dashboard" >>,
       << <<ROBOT, "AI Event Forecast">>, "ai_event_forecast" >>,
       << <<ROBOT, "AI Revenue Maximizer">>, "ai_revenue_maximizer" >>,
       << <<ROBOT, "AI Strategy Dashboard">>, "ai_strategy_dashboard" >>,
       << <<ROBOT, "AI Sponsor Finder">>, "ai_sponsor_opportunity_finder" >>,
       << <<"door", "Facility Access Tracker">>, "facility_access_tracker" >>,
       << <<"warning", "Facility Capacity Alerts">>, "facility_capacity_alerts" >>,
       << <<"clipboard", "Facility Contract Monitor">>, "facility_contract_monitor" >>,
       << <<"map", "Facility Layout Map">>, "facility_layout_map" >>,
       << <<"fire", "Revenue Heatmap">>, "revenue_heatmap" >>,
       << <<"trend", "Revenue Projection">>, "revenue_projection_simulator" >>,
       << <<"money", "Dynamic Pricing">>, "dynamic_pricing_tool" >>,
       << <<"chart", "Reports Generator">>, "weekly_report_generator" >>,
       << <<"page", "PDF Export Tool">>, "pdf_export_tool" >>,
       << <<"mail", "Email Manager">>, "email_notifications" >>,
       << <<"phone", "SMS Alerts">>, "sms_alert_center" >> >>

ToolModules == {tool_categories[i][2] : i \in DOMAIN tool_categories}
startswith(tool_name, prefix) == tool_name[1] = prefix

\* what __import__(module_name) does: "ok", or the kind of exception raised
import_of(importing, module_name) ==
    IF module_name \in importing.failing THEN importing.kind ELSE "ok"

\* ModuleLoader.__init__
NewLoader == [modules |-> {}, failed_modules |-> {}]

\* variant of safe_import without the 'except Exception' clause
safe_import_import_error_only(loader, module_name, importing) ==
    IF module_name \in loader.modules
    THEN [loader |-> loader, module |-> <<module_name>>, raised |-> None]
    ELSE IF import_of(importing, module_name) = "ok"
    THEN [loader |-> [loader EXCEPT !.modules = @ \cup {module_name}],
          module |-> <<module_name>>, raised |-> None]
    ELSE IF import_of(importing, module_name) = "ImportError"
    THEN [loader |-> [loader EXCEPT !.failed_modules = @ \cup {module_name}],
          module |-> None, raised |-> None]
    ELSE [loader |-> loader, module |-> None, raised |-> <<import_of(importing, module_name)>>]

\* safe_import: the cached module, or the imported one, or None with the
\* module recorded in failed_modules ('except ImportError', 'except Exception')
safe_import(loader, module_name, importing) ==
    IF module_name \in loader.modules
    THEN [loader |-> loader, module |-> <<module_name>>, raised |-> None]
    ELSE IF import_of(importing, module_name) = "ok"
    THEN [loader |-> [loader EXCEPT !.modules = @ \cup {module_name}],
          module |-> <<module_name>>, raised |-> None]
    ELSE IF import_of(importing, module_name) \in {"ImportError", "Exception"}
    THEN [loader |-> [loader EXCEPT !.failed_modules = @ \cup {module_name}],
          module |-> None, raised |-> None]
    ELSE [loader |-> loader, module |-> None, raised |-> <<import_of(importing, module_name)>>]

\* get_module_health: the sizes of the two dicts and their sum
get_module_health(loader) ==
    [loaded |-> Cardinality(loader.modules),
     failed |-> Cardinality(loader.failed_modules),
     total |-> Cardinality(loader.modules) + Cardinality(loader.failed_modules)]

\* the loop of build_tools_menu from entry i on
RECURSIVE tools_from(_, _, _, _, _)
tools_from(i, tier, importing, loader, tools) ==
    IF i > Len(tool_categories)
    THEN [tools |-> tools, loader |-> loader, raised |-> None]
    ELSE LET tool_name == tool_categories[i][1]
             module_key == tool_categories[i][2]
         IN  IF startswith(tool_name, ROBOT) /\ tier = "starter"
             THEN tools_from(i + 1, tier, importing, loader, tools)
             ELSE LET imp == safe_import(loader, module_key, importing)
                  IN  IF imp.raised # None
                      THEN [tools |-> tools, loader |-> imp.loader, raised |-> imp.raised]
                      ELSE tools_from(i + 1, tier, importing, imp.loader,
                                      IF imp.module # None
                                      THEN Append(tools, tool_name) ELSE tools)

\* `tools` holds the keys of the dict in the order they were inserted
build_tools_menu(tier, importing) == tools_from(1, tier, importing, NewLoader, <<>>)

(***************************************************************************)
(* State                                                                   *)
(***************************************************************************)
VARIABLES
    now,            \* time.time() / datetime.now(), in seconds
    ticks,          \* number of clock advances so far
    salt_file,      \* content of .salt
    users_file,     \* content of database/<facility>_users.json: email -> record
    setup_file,     \* TRUE while database/<facility>_setup.txt exists
    license_valid,  \* SportAIEnterpriseApp.license_valid
    session_state,  \* st.session_state of the browser session
    audit_tail,     \* the lines the latest step appended to the audit file
    ret,            \* what the latest step's handler returned or raised
    wrong_streak,   \* history: failed verifications per user since the last
                    \* successful login or lock expiry
    inflight,       \* per browser session: the authenticate_user call that has
                    \* loaded the credential file and not yet returned
    faults,         \* the number of reads of the credential file that failed
    call,           \* the latest application of a function on its own:
                    \* its name, its arguments and what it returned
    host,           \* the installation directory: which files exist, the
                    \* stored subscription, the users table of sportai.db
    script,         \* the run of setup-script.py: the step it is at, the
                    \* steps it has run, its exit status
    module_loader,  \* a ModuleLoader: its modules and failed_modules (the keys)
    requested       \* history: the module names safe_import was called with

vars == <<now, ticks, salt_file, users_file, setup_file, license_valid,
          session_state, audit_tail, ret, wrong_streak, inflight, faults,
          call, host, script, module_loader, requested>>

\* the browser sessions: each has its own st.session_state
Browsers == {1, 2}

\* op: the handler; vs: what the run's first validate_session returned;
\* value, message: what the handler returned or displayed; verified: whether
\* verify_password was called; raised: the exception that left run();
\* called: the DatabaseManager methods the handler called; page: the page shown;
\* lock: the lock authenticate_user found on the account ("none", "locked",
\* "expired"), "n/a" elsewhere
Outcome(op, vs, value, message, verified, raised, called, page) ==
    [op |-> op, vs |-> vs, value |-> value, message |-> message,
     verified |-> verified, raised |-> raised, called |-> called, page |-> page,
     lock |-> "n/a"]

NoRet == Outcome("none", "n/a", "None", <<>>, FALSE, "", {}, "none")

\* st.session_state of a fresh browser session, after run() has initialised
\* show_registration
FreshSession == [has_user |-> FALSE, user |-> None, show_registration |-> FALSE]

\* no authenticate_user call of the browser session is under way
Idle == [pc |-> "idle", email |-> "", password |-> "", users |-> <<>>,
         result |-> "n/a", stale |-> FALSE]

\* no function has been applied on its own
NoCall == [fn |-> "none", args |-> <<>>, out |-> <<>>]

\* the directory once the application has been constructed in it: salt,
\* credential file and configuration exist, license.key only if installed;
\* _create_default_config stores tier professional, valid for 30 days
AppFiles == {".salt", "users.json", "config.json"}
installed(license_key) ==
    [files |-> AppFiles \cup (IF license_key THEN {"license.key"} ELSE {}),
     valid_until |-> isoformat(30 * DAY),
     tier |-> "professional",
     sqlite_users |-> [e \in {} |-> None],
     constructed |-> TRUE,
     config |-> default_config]

\* setup-script.py has not been started: no step has run, nothing was raised,
\* the process has no exit status, no admin credentials were entered
NotRun == [pc |-> "not_run", status |-> "none", ran |-> <<>>, raised |-> None,
           skip_deps |-> FALSE, reset |-> FALSE, runs |-> 0, admin |-> None]

\* the record create_default_users writes for admin@facility.com
default_admin(salt, default_password) ==
    [password_hash |-> hash_password(salt, default_password),
     role |-> "admin",
     failed_attempts |-> 0,
     locked_until |-> None,
     must_change_password |-> TRUE]

\* the state after SportAIEnterpriseApp() has been constructed for the first
\* time: salt created, default admin written, setup file written
Init ==
    /\ now = 0
    /\ ticks = 0
    /\ salt_file = "salt"
    /\ users_file = [e \in {ADMIN_EMAIL} |-> default_admin(salt_file, DEFAULT_PW)]
    /\ setup_file = TRUE
    /\ license_valid \in BOOLEAN
    /\ session_state = [b \in Browsers |-> FreshSession]
    /\ audit_tail = <<>>
    /\ ret = NoRet
    /\ wrong_streak = [e \in LoginEmails |-> 0]
    /\ inflight = [b \in Browsers |-> Idle]
    /\ faults = 0
    /\ call = NoCall
    /\ host = installed(license_valid)
    /\ script = NotRun
    /\ module_loader = NewLoader
    /\ requested = {}

\* validate_password_strength and the e-mail format check, tabulated over
\* the strings of the model
strength_of ==
    [p \in LoginPasswords \cup NewPasswords \cup ChangePasswords |->
        validate_password_strength(p)]

format_ok_of ==
    [e \in LoginEmails \cup AdminNewEmails \cup {f.email : f \in RegistrationForms} |->
        email_format_ok(e)]

(***************************************************************************)
(* DatabaseManager                                                         *)
(***************************************************************************)
NoUsers == [e \in {} |-> None]

\* load_users: the parsed file, or {} when reading or parsing raised
load_users(file, read_ok) == IF read_ok THEN file ELSE NoUsers

\* users[email] = record
put_user(users, email, record) ==
    [e \in DOMAIN users \cup {email} |-> IF e = email THEN record ELSE users[e]]

\* the record add_user builds
new_user(salt, password, role) ==
    [password_hash |-> hash_password(salt, password),
     role |-> role,
     failed_attempts |-> 0,
     locked_until |-> None,
     must_change_password |-> FALSE]

\* variant of add_user that validates the password before looking up the email
add_user_strength_first(users, salt, email, password, role) ==
    IF ~strength_of[password].valid
    THEN [value |-> FALSE,
          message |-> join_lines(strength_of[password].errors),
          save |-> FALSE, users |-> users, audit |-> <<>>]
    ELSE IF email \in DOMAIN users
    THEN [value |-> FALSE, message |-> <<"User already exists">>,
          save |-> FALSE, users |-> users, audit |-> <<>>]
    ELSE [value |-> TRUE, message |-> <<"User created successfully">>,
          save |-> TRUE,
          users |-> put_user(users, email, new_user(salt, password, role)),
          audit |-> <<create_audit_log(email, "USER_CREATED", <<"Role: ", role>>)>>]

\* variant of add_user that does not validate the password
add_user_unvalidated(users, salt, email, password, role) ==
    IF email \in DOMAIN users
    THEN [value |-> FALSE, message |-> <<"User already exists">>,
          save |-> FALSE, users |-> users, audit |-> <<>>]
    ELSE [value |-> TRUE, message |-> <<"User created successfully">>,
          save |-> TRUE,
          users |-> put_user(users, email, new_user(salt, password, role)),
          audit |-> <<create_audit_log(email, "USER_CREATED", <<"Role: ", role>>)>>]

\* add_user(email, password, role) on the loaded mapping `users`:
\* what it returns, whether and what it saves, what it logs
add_user(users, salt, email, password, role) ==
    IF email \in DOMAIN users
    THEN [value |-> FALSE, message |-> <<"User already exists">>,
          save |-> FALSE, users |-> users, audit |-> <<>>]
    ELSE IF ~strength_of[password].valid
    THEN [value |-> FALSE,
          message |-> join_lines(strength_of[password].errors),
          save |-> FALSE, users |-> users, audit |-> <<>>]
    ELSE [value |-> TRUE, message |-> <<"User created successfully">>,
          save |-> TRUE,
          users |-> put_user(users, email, new_user(salt, password, role)),
          audit |-> <<create_audit_log(email, "USER_CREATED", <<"Role: ", role>>)>>]

(***************************************************************************)
(* SportAIEnterpriseApp.authenticate_user                                  *)
(***************************************************************************)
\* variant of is_locked that never finds the account locked
is_locked_never(user, t) == FALSE

\* "if user.get('locked_until'): ... if datetime.now() < locked_until"
is_locked(user, t) ==
    user.locked_until # None /\ t < fromisoformat(user.locked_until)

\* variant of unlock_expired that clears the lock and keeps the counter
unlock_expired_keep_count(user, t) ==
    IF user.locked_until # None /\ ~(t < fromisoformat(user.locked_until))
    THEN [user EXCEPT !.locked_until = None]
    ELSE user

\* the else branch of the lock check: "Unlock account"
unlock_expired(user, t) ==
    IF user.locked_until # None /\ ~(t < fromisoformat(user.locked_until))
    THEN [user EXCEPT !.locked_until = None, !.failed_attempts = 0]
    ELSE user

\* variant of record_failure that counts and never locks
record_failure_without_lock(user, t) == [user EXCEPT !.failed_attempts = @ + 1]

\* variant of record_failure that locks one attempt later (> for >=)
record_failure_late(user, t) ==
    LET counted == [user EXCEPT !.failed_attempts = @ + 1]
    IN  IF counted.failed_attempts > max_login_attempts
        THEN [counted EXCEPT !.locked_until = isoformat(t + lockout_duration)]
        ELSE counted

\* the failed-verification branch: increment, and lock at the threshold
record_failure(user, t) ==
    LET counted == [user EXCEPT !.failed_attempts = @ + 1]
    IN  IF counted.failed_attempts >= max_login_attempts
        THEN [counted EXCEPT !.locked_until = isoformat(t + lockout_duration)]
        ELSE counted

\* the audit lines of the failed-verification branch
failure_audit(email, user) ==
    (IF user.failed_attempts >= max_login_attempts
       THEN <<create_audit_log(email, "ACCOUNT_LOCKED",
                               <<"After ", user.failed_attempts, " attempts">>)>>
       ELSE <<>>)
    \o <<create_audit_log(email, "LOGIN_FAILED", <<"Invalid password">>)>>

\* variant of record_success that leaves the counter as it is
record_success_keep_count(user) == user

\* "Successful login": reset the counter
record_success(user) == [user EXCEPT !.failed_attempts = 0]

\* the dict stored in st.session_state.user
new_session(email, user, t) ==
    [email |-> email,
     role |-> user.role,
     login_time |-> t,
     session_token |-> "token_urlsafe",
     session_id |-> "uuid4",
     must_change_password |-> user.must_change_password]

\* variant of unlink_setup_file that deletes the file whatever the role
unlink_setup_file_any_role(role, setup_exists) == FALSE

\* "Delete setup file after first admin login": whether <facility>_setup.txt
\* exists after a successful login of a user with this role
unlink_setup_file(role, setup_exists) ==
    IF role = "admin" THEN FALSE ELSE setup_exists

\* authenticate_user(email, password) at time t on the loaded mapping `users`
authenticate_user(users, salt, setup_exists, email, password, t) ==
    IF email \notin DOMAIN users
    THEN [value |-> FALSE, verified |-> FALSE, save |-> FALSE, users |-> users,
          message |-> <<"Invalid credentials">>,
          audit |-> <<create_audit_log(email, "LOGIN_FAILED", <<"User not found">>)>>,
          session |-> None, setup_file |-> setup_exists, lock |-> "n/a"]
    ELSE IF is_locked(users[email], t)
    THEN [value |-> FALSE, verified |-> FALSE, save |-> FALSE, users |-> users,
          message |-> <<"Account locked">>,
          audit |-> <<>>,
          session |-> None, setup_file |-> setup_exists, lock |-> "locked"]
    ELSE LET user == unlock_expired(users[email], t)
             lock == IF users[email].locked_until # None THEN "expired" ELSE "none"
         IN
         IF ~verify_password(salt, user.password_hash, password)
         THEN LET failed == record_failure(user, t) IN
              [value |-> FALSE, verified |-> TRUE, save |-> TRUE,
               users |-> put_user(users, email, failed),
               message |-> IF failed.failed_attempts >= max_login_attempts
                             THEN <<"Too many failed attempts">>
                             ELSE <<"Invalid credentials. ",
                                    max_login_attempts - failed.failed_attempts,
                                    " attempts remaining.">>,
               audit |-> failure_audit(email, failed),
               session |-> None, setup_file |-> setup_exists, lock |-> lock]
         ELSE LET ok == record_success(user) IN
              [value |-> TRUE, verified |-> TRUE, save |-> TRUE,
               users |-> put_user(users, email, ok),
               message |-> <<"Login successful!">>,
               audit |-> <<create_audit_log(email, "LOGIN_SUCCESS", <<"Role: ", ok.role>>)>>,
               session |-> <<new_session(email, ok, t)>>,
               setup_file |-> unlink_setup_file(ok.role, setup_exists),
               lock |-> lock]

(***************************************************************************)
(* SportAIEnterpriseApp.validate_session and the pages of run()            *)
(***************************************************************************)
\* validate_session() on session state ss at time t.  `'login_time' in user`
\* raises TypeError when st.session_state.user is None.
validate_session(ss, t) ==
    IF ~ss.has_user
    THEN [value |-> "False", state |-> ss, audit |-> <<>>]
    ELSE IF ss.user = None
    THEN [value |-> "TypeError", state |-> ss, audit |-> <<>>]
    ELSE LET user == ss.user[1] IN
         IF "login_time" \in DOMAIN user /\ t - user.login_time > session_timeout
         THEN [value |-> "False",
               state |-> [ss EXCEPT !.user = None],
               audit |-> <<create_audit_log(user.email, "SESSION_TIMEOUT", <<>>)>>]
         ELSE IF "session_token" \notin DOMAIN user
         THEN [value |-> "False", state |-> ss, audit |-> <<>>]
         ELSE [value |-> "True", state |-> ss, audit |-> <<>>]

\* the page run() ends on when no widget event is handled, given what
\* validate_session returned and the session it left
page_of(vs) ==
    IF vs.value = "TypeError" THEN "critical_error"
    ELSE IF vs.value = "False" THEN "login"
    ELSE IF vs.state.user[1].must_change_password THEN "change_password"
    ELSE "dashboard"

\* the registration form's submit handler on the loaded mapping `users`:
\* the chain of checks before add_user(email, password, 'user')
register_user(users, salt, email, password, password_confirm, names_filled, terms) ==
    IF email = "" \/ password = "" \/ password_confirm = "" \/ ~names_filled
    THEN [called |-> {}, value |-> FALSE, save |-> FALSE, users |-> users, audit |-> <<>>,
          message |-> <<"Please fill in all required fields">>]
    ELSE IF password # password_confirm
    THEN [called |-> {}, value |-> FALSE, save |-> FALSE, users |-> users, audit |-> <<>>,
          message |-> <<"Passwords do not match">>]
    ELSE IF ~terms
    THEN [called |-> {}, value |-> FALSE, save |-> FALSE, users |-> users, audit |-> <<>>,
          message |-> <<"Please accept the terms and conditions">>]
    ELSE IF ~format_ok_of[email]
    THEN [called |-> {}, value |-> FALSE, save |-> FALSE, users |-> users, audit |-> <<>>,
          message |-> <<"Invalid email format">>]
    ELSE LET r == add_user(users, salt, email, password, "user") IN
         [called |-> {"add_user"}, value |-> r.value, save |-> r.save,
          users |-> r.users, audit |-> r.audit, message |-> r.message]

\* the 'Change Password' button of the forced password change, on the loaded
\* mapping `users`; users[email] raises KeyError when the key is missing
change_password(users, salt, email, new_password, confirm_password) ==
    IF new_password # confirm_password
    THEN [raised |-> "", changed |-> FALSE, save |-> FALSE, users |-> users,
          message |-> <<"Passwords do not match">>]
    ELSE IF email \notin DOMAIN users
    THEN [raised |-> "KeyError", changed |-> FALSE, save |-> FALSE, users |-> users,
          message |-> <<>>]
    ELSE [raised |-> "", changed |-> TRUE, save |-> TRUE,
          users |-> put_user(users, email,
                       [users[email] EXCEPT
                           !.password_hash = hash_password(salt, new_password),
                           !.must_change_password = FALSE]),
          message |-> <<"Password changed successfully">>]

(***************************************************************************)
(* History counter                                                         *)
(***************************************************************************)
Min(a, b) == IF a < b THEN a ELSE b

\* the number of failed verifications of one user since that user's last
\* successful login or lock expiry, after a login attempt: `exists`, the
\* user is in the store; `locked`, the attempt falls before locked_until;
\* `expired`, a lock was set and the attempt falls at or after locked_until;
\* `correct`, the supplied password is the user's
streak_after(old, exists, locked, expired, correct) ==
    IF ~exists \/ locked THEN old
    ELSE IF correct THEN 0
    ELSE Min((IF expired THEN 0 ELSE old) + 1, MaxStreak)

streak_of(old, users, salt, email, password, t) ==
    IF email \notin DOMAIN users THEN old
    ELSE streak_after(old, TRUE,
            users[email].locked_until # None /\ t < users[email].locked_until[1],
            users[email].locked_until # None /\ t >= users[email].locked_until[1],
            users[email].password_hash = <<"pbkdf2_hmac", password, salt, pepper>>)

(***************************************************************************)
(* Actions: one run() of the script per widget event of browser session b  *)
(***************************************************************************)
\* session_state with browser session b's state replaced
with_session(b, ss) == [session_state EXCEPT ![b] = ss]

\* open(users_file) succeeds (read_ok) or raises, at most MaxFaults times
Read(read_ok) ==
    /\ IF read_ok THEN TRUE ELSE faults < MaxFaults
    /\ faults' = IF read_ok THEN faults ELSE faults + 1

\* the clock advances; no handler runs, so nothing is returned or logged
Tick(dt) ==
    /\ ticks < MaxTicks
    /\ now' = now + dt
    /\ ticks' = ticks + 1
    /\ audit_tail' = <<>>
    /\ ret' = NoRet
    /\ UNCHANGED <<call, module_loader, requested, host, script, salt_file, users_file, setup_file, license_valid,
                   session_state, wrong_streak, inflight, faults>>

\* a run in which no widget event is handled: validate_session, then a page
RunNoEvent(b) ==
    /\ ~session_state[b].show_registration
    /\ LET vs == validate_session(session_state[b], now) IN
        /\ session_state' = with_session(b, vs.state)
        /\ audit_tail' = vs.audit
        /\ ret' = Outcome("run", vs.value, "None", <<>>, FALSE,
                          IF vs.value = "TypeError" THEN "TypeError" ELSE "",
                          {}, page_of(vs))
    /\ UNCHANGED <<call, module_loader, requested, host, script, now, ticks, salt_file, users_file, setup_file, license_valid,
                   wrong_streak, inflight, faults>>

\* the page is opened in a new browser session: empty st.session_state
NewBrowserSession(b) ==
    /\ session_state[b] # FreshSession
    /\ inflight[b].pc # "loaded"
    /\ session_state' = with_session(b, FreshSession)
    /\ audit_tail' = <<>>
    /\ ret' = Outcome("run", "False", "None", <<>>, FALSE, "", {}, "login")
    /\ UNCHANGED <<call, module_loader, requested, host, script, now, ticks, salt_file, users_file, setup_file, license_valid,
                   wrong_streak, inflight, faults>>

\* the login page is shown with its form: no user in the session, license valid
LoginFormShown(b) ==
    /\ ~session_state[b].show_registration
    /\ ~session_state[b].has_user
    /\ validate_session(session_state[b], now).value = "False"
    /\ license_valid

\* the effects of authenticate_user(email, password) in browser session b, on
\* the mapping `users` that its load_users() returned, and of the st.rerun()
\* that follows a success
Authenticate(b, users, email, password) ==
    LET r == authenticate_user(users, salt_file, setup_file, email, password, now)
        ss == IF r.value
                THEN [session_state[b] EXCEPT !.has_user = TRUE, !.user = r.session]
                ELSE session_state[b]
    IN
     /\ users_file' = IF r.save THEN r.users ELSE users_file
     /\ setup_file' = r.setup_file
     /\ session_state' = with_session(b, ss)
     /\ audit_tail' = r.audit
     /\ ret' = [Outcome("authenticate_user", "False",
                        IF r.value THEN "True" ELSE "False", r.message,
                        r.verified, "", {"load_users"} \cup
                            (IF r.save THEN {"save_users"} ELSE {}),
                        IF r.value THEN page_of(validate_session(ss, now)) ELSE "login")
                   EXCEPT !.lock = r.lock]
     /\ wrong_streak' = IF email \in DOMAIN wrong_streak
                          THEN [wrong_streak EXCEPT ![email] =
                                  streak_of(@, users, salt_file, email, password, now)]
                          ELSE wrong_streak

\* the 'Login' button, the handler running from load_users to its return
\* without another handler in between
RunLogin(b, email, password, read_ok) ==
    /\ LoginFormShown(b)
    /\ inflight[b].pc # "loaded"
    /\ Authenticate(b, load_users(users_file, read_ok), email, password)
    /\ Read(read_ok)
    /\ UNCHANGED <<call, module_loader, requested, host, script, now, ticks, salt_file, license_valid, inflight>>

\* the 'Register' button of the login page
RunClickRegister(b) ==
    /\ LoginFormShown(b)
    /\ session_state' = with_session(b, [session_state[b] EXCEPT !.show_registration = TRUE])
    /\ audit_tail' = <<>>
    /\ ret' = Outcome("click_register", "False", "None", <<>>, FALSE, "", {}, "login")
    /\ UNCHANGED <<call, module_loader, requested, host, script, now, ticks, salt_file, users_file, setup_file, license_valid,
                   wrong_streak, inflight, faults>>

\* the 'Create Account' button of the registration page; on success
\* show_registration is cleared, the script sleeps 2 seconds and reruns
RunRegister(b, email, password, password_confirm, names_filled, terms, read_ok) ==
    /\ session_state[b].show_registration
    /\ LET users == load_users(users_file, read_ok)
           r == register_user(users, salt_file, email, password, password_confirm,
                              names_filled, terms)
           t2 == IF r.value THEN now + 2 ELSE now
           vs == validate_session([session_state[b] EXCEPT !.show_registration = FALSE], t2)
       IN
        /\ users_file' = IF r.save THEN r.users ELSE users_file
        /\ now' = t2
        /\ session_state' = IF r.value THEN with_session(b, vs.state) ELSE session_state
        /\ audit_tail' = r.audit \o (IF r.value THEN vs.audit ELSE <<>>)
        /\ ret' = Outcome("register_user", "n/a",
                          IF r.value THEN "True" ELSE "False", r.message, FALSE,
                          IF r.value /\ vs.value = "TypeError" THEN "TypeError" ELSE "",
                          r.called, IF r.value THEN page_of(vs) ELSE "registration")
    /\ Read(read_ok)
    /\ UNCHANGED <<call, module_loader, requested, host, script, ticks, salt_file, setup_file, license_valid, wrong_streak, inflight>>

\* the 'Back to Login' button of the registration page, then st.rerun()
RunBackToLogin(b) ==
    /\ session_state[b].show_registration
    /\ LET vs == validate_session([session_state[b] EXCEPT !.show_registration = FALSE], now) IN
        /\ session_state' = with_session(b, vs.state)
        /\ audit_tail' = vs.audit
        /\ ret' = Outcome("back_to_login", "n/a", "None", <<>>, FALSE,
                          IF vs.value = "TypeError" THEN "TypeError" ELSE "",
                          {}, page_of(vs))
    /\ UNCHANGED <<call, module_loader, requested, host, script, now, ticks, salt_file, users_file, setup_file, license_valid,
                   wrong_streak, inflight, faults>>

\* a valid session whose user must change the password
ChangeFormShown(b) ==
    /\ ~session_state[b].show_registration
    /\ validate_session(session_state[b], now).value = "True"
    /\ session_state[b].user[1].must_change_password

\* variant of DashboardShown without the password-change gate
DashboardShownWithoutGate(b) ==
    /\ ~session_state[b].show_registration
    /\ validate_session(session_state[b], now).value = "True"

\* a valid session past the password-change gate: sidebar and dashboard
DashboardShown(b) ==
    /\ ~session_state[b].show_registration
    /\ validate_session(session_state[b], now).value = "True"
    /\ ~session_state[b].user[1].must_change_password

\* the 'Change Password' button of the forced password change
RunChangePassword(b, new_password, confirm_password, read_ok) ==
    /\ ChangeFormShown(b)
    /\ LET users == load_users(users_file, read_ok)
           r == change_password(users, salt_file, session_state[b].user[1].email,
                                new_password, confirm_password)
           ss == IF r.changed
                   THEN [session_state[b] EXCEPT !.user =
                            <<[session_state[b].user[1] EXCEPT !.must_change_password = FALSE]>>]
                   ELSE session_state[b]
       IN
        /\ users_file' = IF r.save THEN r.users ELSE users_file
        /\ session_state' = with_session(b, ss)
        /\ audit_tail' = <<>>
        /\ ret' = Outcome("change_password", "True",
                          IF r.changed THEN "True" ELSE "False", r.message, FALSE,
                          r.raised,
                          (IF new_password = confirm_password THEN {"load_users"} ELSE {})
                              \cup (IF r.save THEN {"save_users"} ELSE {}),
                          IF r.raised # "" THEN "critical_error"
                          ELSE page_of(validate_session(ss, now)))
    /\ Read(read_ok)
    /\ UNCHANGED <<call, module_loader, requested, host, script, now, ticks, salt_file, setup_file, license_valid, wrong_streak,
                   inflight>>

\* variant of the 'Logout' button without st.session_state.clear()
RunLogoutKeepingState(b) ==
    /\ DashboardShown(b)
    /\ session_state' = session_state
    /\ audit_tail' = <<create_audit_log(session_state[b].user[1].email, "LOGOUT", <<>>)>>
    /\ ret' = Outcome("logout", "True", "None", <<>>, FALSE, "", {},
                      page_of(validate_session(session_state[b], now)))
    /\ UNCHANGED <<call, module_loader, requested, host, script, now, ticks, salt_file, users_file, setup_file, license_valid,
                   wrong_streak, inflight, faults>>

\* the 'Logout' button: audit entry, st.session_state.clear(), st.rerun()
RunLogout(b) ==
    /\ DashboardShown(b)
    /\ session_state' = with_session(b, FreshSession)
    /\ audit_tail' = <<create_audit_log(session_state[b].user[1].email, "LOGOUT", <<>>)>>
    /\ ret' = Outcome("logout", "True", "None", <<>>, FALSE, "", {},
                      page_of(validate_session(FreshSession, now)))
    /\ UNCHANGED <<call, module_loader, requested, host, script, now, ticks, salt_file, users_file, setup_file, license_valid,
                   wrong_streak, inflight, faults>>

\* the 'Add User' form of the admin panel (Settings tab, role admin)
RunAddUser(b, email, password, role, read_ok) ==
    /\ DashboardShown(b)
    /\ session_state[b].user[1].role = "admin"
    /\ LET users == load_users(users_file, read_ok)
           r == add_user(users, salt_file, email, password, role)
       IN
        /\ users_file' = IF r.save THEN r.users ELSE users_file
        /\ audit_tail' = r.audit
        /\ ret' = Outcome("add_user", "True",
                          IF r.value THEN "True" ELSE "False", r.message, FALSE, "",
                          {"add_user"}, "dashboard")
    /\ Read(read_ok)
    /\ UNCHANGED <<call, module_loader, requested, host, script, now, ticks, salt_file, setup_file, license_valid, session_state,
                   wrong_streak, inflight>>

\* variant of AdminPanelShown that shows the admin panel to every role
AdminPanelShownToAll(b) == DashboardShown(b)

\* the Settings tab shows the admin panel: a valid session past the
\* password-change gate whose role is admin
AdminPanelShown(b) ==
    /\ DashboardShown(b)
    /\ session_state[b].user[1].role = "admin"

\* a button of the Configuration tab has called update_config for each
\* (section, key, value) of `updates`, in order, on the configuration that
\* the run loaded from the file
RECURSIVE update_all(_, _, _)
update_all(config, file, updates) ==
    IF updates = <<>> THEN [config |-> config, file |-> file]
    ELSE LET u == update_config(config, file, updates[1][1], updates[1][2], updates[1][3])
         IN  update_all(u.config, u.file, Tail(updates))

SaveConfig(b, button, updates) ==
    /\ AdminPanelShown(b)
    /\ host' = [host EXCEPT !.config = update_all(@, @, updates).file]
    /\ audit_tail' = <<>>
    /\ ret' = Outcome(button, "True", "None", <<>>, FALSE, "",
                      {"update_config"}, "dashboard")
    /\ UNCHANGED <<call, module_loader, requested, script, now, ticks, salt_file, users_file, setup_file,
                   license_valid, session_state, wrong_streak, inflight, faults>>

\* the 'Save Facility Info' button
RunSaveFacilityInfo(b, facility_name, facility_type) ==
    SaveConfig(b, "save_facility_info",
               << <<"facility", "name", facility_name>>,
                  <<"facility", "type", facility_type>> >>)

\* the 'Save Features' button; a checkbox that was not touched submits the
\* value it was drawn with
RunSaveFeatures(b, ai_enabled, analytics, api_access, white_label) ==
    SaveConfig(b, "save_features",
               << <<"features", "ai_modules", ai_enabled>>,
                  <<"features", "advanced_analytics", analytics>>,
                  <<"features", "api_access", api_access>>,
                  <<"features", "white_label", white_label>> >>)

\* the 'Save Branding' button; the st.rerun() that follows shows the
\* dashboard again
RunSaveBranding(b, primary_color, secondary_color) ==
    SaveConfig(b, "save_branding",
               << <<"branding", "primary_color", primary_color>>,
                  <<"branding", "secondary_color", secondary_color>> >>)

\* authenticate_user of browser session b up to and including its
\* load_users(): the mapping it will work on is the file as it is now
BeginLogin(b, email, password) ==
    /\ LoginFormShown(b)
    /\ inflight[b].pc # "loaded"
    /\ inflight' = [inflight EXCEPT ![b] =
                      [pc |-> "loaded", email |-> email, password |-> password,
                       users |-> load_users(users_file, TRUE),
                       result |-> "n/a", stale |-> FALSE]]
    /\ audit_tail' = <<>>
    /\ ret' = NoRet
    /\ UNCHANGED <<call, module_loader, requested, host, script, now, ticks, salt_file, users_file, setup_file, license_valid,
                   session_state, wrong_streak, faults>>

\* variant of loaded_users that reads the file again when the call resumes
reloaded_users(b) == users_file

\* the local variable `users` of the call under way in browser session b
loaded_users(b) == inflight[b].users

\* how the call under way in browser session b ends
result_of(r) ==
    IF r.value THEN "right"
    ELSE IF r.verified THEN "wrong"
    ELSE IF r.lock = "locked" THEN "rejected"
    ELSE "unknown"

\* the rest of authenticate_user of browser session b, from the lookup of
\* the email to the return; a save makes the other calls' mappings stale
FinishLogin(b) ==
    /\ inflight[b].pc = "loaded"
    /\ Authenticate(b, loaded_users(b), inflight[b].email, inflight[b].password)
    /\ LET r == authenticate_user(loaded_users(b), salt_file, setup_file,
                                  inflight[b].email, inflight[b].password, now)
       IN inflight' = [o \in Browsers |->
                         IF o = b
                           THEN [inflight[b] EXCEPT !.pc = "returned",
                                                    !.result = result_of(r)]
                         ELSE IF r.save /\ inflight[o].pc = "loaded"
                           THEN [inflight[o] EXCEPT !.stale = TRUE]
                         ELSE inflight[o]]
    /\ UNCHANGED <<call, module_loader, requested, host, script, now, ticks, salt_file, license_valid, faults>>

\* the handlers of browser session b, each running alone, with the
\* credential file readable (reads = {TRUE}) or possibly unreadable
Handlers(b, reads) ==
    \/ RunNoEvent(b)
    \/ NewBrowserSession(b)
    \/ \E e \in LoginEmails, p \in LoginPasswords, ok \in reads : RunLogin(b, e, p, ok)
    \/ RunClickRegister(b)
    \/ \E f \in RegistrationForms, ok \in reads :
          RunRegister(b, f.email, f.password, f.password_confirm, f.names_filled,
                      f.terms, ok)
    \/ RunBackToLogin(b)
    \/ \E p \in ChangePasswords, c \in ChangePasswords, ok \in reads :
          RunChangePassword(b, p, c, ok)
    \/ RunLogout(b)
    \/ \E e \in AdminNewEmails, p \in NewPasswords, r \in AdminNewRoles, ok \in reads :
          RunAddUser(b, e, p, r, ok)

\* sequential execution, the credential file readable
Next ==
    \/ \E dt \in TimeSteps : Tick(dt)
    \/ Handlers(1, {TRUE})

Spec == Init /\ [][Next]_vars

\* sequential execution in which a read of the credential file may fail;
\* the clock stands still
NextFault == Handlers(1, BOOLEAN)

SpecFault == Init /\ [][NextFault]_vars

\* what the admin enters on the Configuration tab
FacilityNames == {"Sports Complex", "Arena"}
FacilityTypes == {"multi-sport", "stadium"}
Colors == {"#1E40AF", "#000000"}

\* the buttons of the Configuration tab in browser session b
ConfigHandlers(b) ==
    \/ \E name \in FacilityNames, type \in FacilityTypes :
          RunSaveFacilityInfo(b, name, type)
    \/ \E ai_enabled \in BOOLEAN :
          RunSaveFeatures(b, ai_enabled, host.config.features.advanced_analytics,
                          host.config.features.api_access,
                          host.config.features.white_label)
    \/ \E primary_color \in Colors :
          RunSaveBranding(b, primary_color, host.config.branding.secondary_color)

\* sequential execution with the admin panel's Configuration tab; the clock
\* stands still
NextAdmin ==
    \/ Handlers(1, {TRUE})
    \/ ConfigHandlers(1)

SpecAdmin == Init /\ [][NextAdmin]_vars

\* logins of two browser sessions, the calls of authenticate_user interleaved
\* between load_users and the rest; the clock stands still
NextConc ==
    \E b \in Browsers :
       \/ \E e \in LoginEmails, p \in ConcPasswords : BeginLogin(b, e, p)
       \/ FinishLogin(b)
       \/ NewBrowserSession(b)

SpecConc == Init /\ [][NextConc]_vars

(***************************************************************************)
(* Logins and registrations of two browser sessions, each call of          *)
(* authenticate_user and of add_user split between its load_users() and    *)
(* the rest                                                                *)
(***************************************************************************)
\* the clock reading from which no further registration is followed: each
\* successful registration sleeps 2 seconds
MaxClock == 4

\* the call under way in browser session b has loaded the credential file
CallUnderWay(b) == inflight[b].pc \in {"loaded", "adding"}

\* the 'Create Account' button with a form that passes the handler's checks,
\* up to and including the load_users() of add_user(email, password, 'user')
BeginAddUser(b, f) ==
    /\ session_state[b].show_registration
    /\ ~CallUnderWay(b)
    /\ register_user(users_file, salt_file, f.email, f.password, f.password_confirm,
                     f.names_filled, f.terms).called = {"add_user"}
    /\ inflight' = [inflight EXCEPT ![b] =
                      [pc |-> "adding", email |-> f.email, password |-> f.password,
                       users |-> load_users(users_file, TRUE),
                       result |-> "n/a", stale |-> FALSE]]
    /\ audit_tail' = <<>>
    /\ ret' = NoRet
    /\ UNCHANGED <<call, module_loader, requested, host, script, now, ticks, salt_file, users_file, setup_file,
                   license_valid, session_state, wrong_streak, faults>>

\* the rest of add_user of browser session b, from the lookup of the email to
\* the return, and of the handler: on success show_registration is cleared,
\* the script sleeps 2 seconds and reruns
FinishAddUser(b) ==
    /\ inflight[b].pc = "adding"
    /\ now < MaxClock
    /\ LET r == add_user(loaded_users(b), salt_file, inflight[b].email,
                         inflight[b].password, "user")
           t2 == IF r.value THEN now + 2 ELSE now
           vs == validate_session([session_state[b] EXCEPT !.show_registration = FALSE], t2)
       IN
        /\ users_file' = IF r.save THEN r.users ELSE users_file
        /\ now' = t2
        /\ session_state' = IF r.value THEN with_session(b, vs.state) ELSE session_state
        /\ audit_tail' = r.audit \o (IF r.value THEN vs.audit ELSE <<>>)
        /\ ret' = Outcome("register_user", "n/a",
                          IF r.value THEN "True" ELSE "False", r.message, FALSE,
                          IF r.value /\ vs.value = "TypeError" THEN "TypeError" ELSE "",
                          {"add_user"}, IF r.value THEN page_of(vs) ELSE "registration")
        /\ inflight' = [o \in Browsers |->
                          IF o = b
                            THEN [inflight[b] EXCEPT
                                    !.pc = "returned",
                                    !.result = IF r.value THEN "created" ELSE "rejected"]
                          ELSE IF r.save /\ CallUnderWay(o)
                            THEN [inflight[o] EXCEPT !.stale = TRUE]
                          ELSE inflight[o]]
    /\ UNCHANGED <<call, module_loader, requested, host, script, ticks, salt_file, setup_file, license_valid,
                   wrong_streak, faults>>

\* the forms of the interleaved registrations: a new user, and the same
\* user with a weak password
InterleavedForms ==
    {Form(E1, PW_STRONG, PW_STRONG, TRUE, TRUE), Form(E1, PW_WEAK, PW_WEAK, TRUE, TRUE)}

\* browser session 1 logs in as the default admin, browser session 2
\* registers a user
NextInterleaved ==
    \/ \E p \in ConcPasswords : BeginLogin(1, ADMIN_EMAIL, p)
    \/ FinishLogin(1)
    \/ ~CallUnderWay(2) /\ RunClickRegister(2)
    \/ \E f \in InterleavedForms : BeginAddUser(2, f)
    \/ FinishAddUser(2)

SpecInterleaved == Init /\ [][NextInterleaved]_vars

(***************************************************************************)
(* Functions applied on their own                                          *)
(***************************************************************************)
\* the function fn has been applied to args and has returned out
Application(fn, args, out) == [fn |-> fn, args |-> args, out |-> out]

\* applying a function on its own changes nothing else
OnlyCall ==
    UNCHANGED <<now, ticks, salt_file, users_file, setup_file, license_valid,
                session_state, audit_tail, ret, wrong_streak, inflight, faults,
                host, script, module_loader, requested>>

\* stored expiries and clock readings around them
Expiries == {isoformat(10 * DAY), isoformat(30 * DAY), None, BAD_DATE}
LicenseTimes ==
    {0, 3 * DAY, 3 * DAY + 1, 10 * DAY - 1, 10 * DAY, 10 * DAY + 1,
     23 * DAY, 30 * DAY, 31 * DAY}

CallValidateLicense(license_exists, stored, t) ==
    /\ call' = Application("validate_license", <<license_exists, stored, t>>,
                           validate_license(license_exists, stored, t))
    /\ OnlyCall

\* stored tiers: the three of the table and values outside it
Tiers == TierNames \cup {"trial", "Professional", ""}
Features == EnterpriseFeatures \cup {"sso"}

CallCheckFeatureAccess(tier, feature) ==
    /\ call' = Application("check_feature_access", <<tier, feature>>,
                           check_feature_access(tier, feature))
    /\ OnlyCall

\* what importing each tool module does: a few modules fail, or all do
FailingCandidates == {"central_dashboard", "ai_event_forecast", "sms_alert_center"}
ImportFailures == {"ImportError", "Exception"}
Importings ==
    {[failing |-> failing, kind |-> kind] :
        failing \in (SUBSET FailingCandidates) \cup {ToolModules}, kind \in ImportFailures}

\* passwords breaking no rule, each rule alone, and several rules
StrengthPasswords ==
    {PW_STRONG, PW_WEAK, PW_NOSPECIAL, DEFAULT_PW, "", "Abcde1!", "abcdef1!",
     "ABQZABQ1!", "Abcdefa!", "Abcdef1_", "12391239"}

CallValidatePasswordStrength(password) ==
    /\ call' = Application("validate_password_strength", <<password>>,
                           validate_password_strength(password))
    /\ OnlyCall

\* values of secrets.token_hex(32)
Salts == {"salt", "salt2"}
HashedPasswords == {PW_STRONG, PW_OTHER, PW_WEAK, DEFAULT_PW, ""}

\* verify_password(hash_password(password), provided_password) under one salt
CallVerifyPassword(salt, password, provided_password) ==
    /\ call' = Application("verify_password", <<salt, password, provided_password>>,
                           verify_password(salt, hash_password(salt, password), provided_password))
    /\ OnlyCall

\* loaders safe_import is applied to: a new one, and one holding a module
Loaders == {NewLoader} \cup
           {[modules |-> {m}, failed_modules |-> {}] : m \in FailingCandidates}

CallSafeImport(loader, module_name, importing) ==
    /\ call' = Application("safe_import", <<loader, module_name, importing>>,
                           safe_import(loader, module_name, importing))
    /\ OnlyCall

CallBuildToolsMenu(tier, importing) ==
    /\ call' = Application("build_tools_menu", <<tier, importing>>,
                           build_tools_menu(tier, importing))
    /\ OnlyCall

\* configurations in memory and in the file (the two differ when the file
\* was written after the configuration was loaded), and the updates asked
\* for: keys that exist, with a new value and with the value they have, a
\* key that does not exist, a section that does not exist
Configs ==
    {default_config,
     [default_config EXCEPT !.facility.name = "Arena"],
     [default_config EXCEPT !.branding.primary_color = "#000000"]}
ConfigUpdates ==
    {<<"facility", "name", "Arena">>,
     <<"facility", "name", "Sports Complex">>,
     <<"branding", "primary_color", "#000000">>,
     <<"features", "ai_modules", FALSE>>,
     <<"facility", "colour", "red">>,
     <<"theme", "name", "dark">>}

CallUpdateConfig(config, file, section, key, value) ==
    /\ call' = Application("update_config", <<config, file, section, key, value>>,
                           update_config(config, file, section, key, value))
    /\ OnlyCall

NextPure ==
    \/ \E x \in BOOLEAN, s \in Expiries, t \in LicenseTimes :
          CallValidateLicense(x, s, t)
    \/ \E tier \in Tiers, feature \in Features :
          CallCheckFeatureAccess(tier, feature)
    \/ \E tier \in Tiers, importing \in Importings :
          CallBuildToolsMenu(tier, importing)
    \/ \E password \in StrengthPasswords : CallValidatePasswordStrength(password)
    \/ \E salt \in Salts, password \in HashedPasswords, provided \in HashedPasswords :
          CallVerifyPassword(salt, password, provided)
    \/ \E loader \in Loaders, m \in FailingCandidates, importing \in Importings :
          CallSafeImport(loader, m, importing)
    \/ \E config \in Configs, file \in Configs, u \in ConfigUpdates :
          CallUpdateConfig(config, file, u[1], u[2], u[3])

SpecPure == Init /\ [][NextPure]_vars

(***************************************************************************)
(* One ModuleLoader over a sequence of safe_import calls; what importing   *)
(* a module does is chosen anew at each call                               *)
(***************************************************************************)
\* self.module_loader.safe_import(module_name)
SafeImport(module_name, importing) ==
    /\ module_loader' = safe_import(module_loader, module_name, importing).loader
    /\ requested' = requested \cup {module_name}
    /\ call' = Application("safe_import", <<module_loader, module_name, importing>>,
                           safe_import(module_loader, module_name, importing))
    /\ UNCHANGED <<now, ticks, salt_file, users_file, setup_file, license_valid,
                   session_state, audit_tail, ret, wrong_streak, inflight, faults,
                   host, script>>

NextLoader ==
    \E module_name \in FailingCandidates, importing \in Importings :
       SafeImport(module_name, importing)

SpecLoader == Init /\ [][NextLoader]_vars

(***************************************************************************)
(* setup-script.py: main() runs its steps in order; each step returns,     *)
(* handles what it catches, or lets an exception leave main(), which the   *)
(* handler under __main__ turns into an exit status.  A step that raises   *)
(* does so before it has written anything.  The application is started     *)
(* when the script is not running.                                         *)
(***************************************************************************)
MaxSetupRuns == 2

SETUP_ADMIN_EMAIL == "admin@sportai.com"

SetupSteps ==
    <<"check_python_version", "create_directories", "install_dependencies",
      "setup_environment", "setup_database", "create_admin_user",
      "setup_ssl_certificates", "create_sample_data", "run_tests",
      "print_next_steps">>

\* a directory without the application: nothing has been written
Uninstalled ==
    [files |-> {}, valid_until |-> None, tier |-> "",
     sqlite_users |-> [e \in {} |-> None], constructed |-> FALSE, config |-> None]

InitSetup ==
    /\ now = 0
    /\ ticks = 0
    /\ host \in {Uninstalled, installed(TRUE), installed(FALSE)}
    /\ salt_file = IF ".salt" \in host.files THEN "salt" ELSE ""
    /\ users_file = IF "users.json" \in host.files
                      THEN [e \in {ADMIN_EMAIL} |-> default_admin(salt_file, DEFAULT_PW)]
                      ELSE NoUsers
    /\ setup_file = ("users.json" \in host.files)
    /\ license_valid = ("license.key" \in host.files)
    /\ session_state = [b \in Browsers |-> FreshSession]
    /\ audit_tail = <<>>
    /\ ret = NoRet
    /\ wrong_streak = [e \in LoginEmails |-> 0]
    /\ inflight = [b \in Browsers |-> Idle]
    /\ faults = 0
    /\ call = NoCall
    /\ script = NotRun
    /\ module_loader = NewLoader
    /\ requested = {}

\* variant of the handler under __main__ that treats an interrupt as a
\* normal end
exit_status_interrupt_ok(raised) ==
    IF raised = None THEN "0"
    ELSE IF raised[1] = "SystemExit" THEN raised[2]
    ELSE IF raised[1] = "KeyboardInterrupt" THEN "0"
    ELSE "1"

\* the exit status of the process when main() returned (raised = None) or
\* `raised` left it: sys.exit(code) keeps its code, KeyboardInterrupt and
\* any other Exception reach sys.exit(1)
exit_status(raised) ==
    IF raised = None THEN "0"
    ELSE IF raised[1] = "SystemExit" THEN raised[2]
    ELSE "1"

\* the statement of main() after `step`
step_after(step, skip_deps) ==
    LET i == CHOOSE j \in DOMAIN SetupSteps : SetupSteps[j] = step
        k == IF i < Len(SetupSteps) /\ SetupSteps[i + 1] = "install_dependencies"
                /\ skip_deps
               THEN i + 2 ELSE i + 1
    IN  IF k > Len(SetupSteps) THEN "return" ELSE SetupSteps[k]

\* the process ends: main() returned, or `raised` left it
Exits(s, raised) ==
    [s EXCEPT !.pc = "exited", !.raised = raised, !.status = exit_status(raised)]

\* `step` has run to its end and main() goes on
Completes(s, step) ==
    LET s2 == [s EXCEPT !.ran = Append(@, step), !.pc = step_after(step, s.skip_deps)]
    IN  IF s2.pc = "return" THEN Exits(s2, None) ELSE s2

\* what of the application's state a step of the script leaves alone
AppUntouched ==
    UNCHANGED <<now, ticks, users_file, setup_file, license_valid, session_state,
                audit_tail, ret, wrong_streak, inflight, faults, call, module_loader, requested>>

\* python setup-script.py [--skip-deps] [--reset]
StartSetup(skip_deps, reset) ==
    /\ script.pc \in {"not_run", "exited"}
    /\ script.runs < MaxSetupRuns
    /\ script' = [pc |-> IF reset THEN "reset_prompt" ELSE SetupSteps[1],
                  status |-> "none", ran |-> <<>>, raised |-> None,
                  skip_deps |-> skip_deps, reset |-> reset,
                  runs |-> script.runs + 1, admin |-> None]
    /\ UNCHANGED <<host, salt_file>>
    /\ AppUntouched

\* the answer to 'This will reset your installation. Continue? (y/N)'
AnswerReset(response) ==
    /\ script.pc = "reset_prompt"
    /\ script' = IF response = "y" THEN [script EXCEPT !.pc = SetupSteps[1]]
                 ELSE Exits(script, None)
    /\ UNCHANGED <<host, salt_file>>
    /\ AppUntouched

\* a step that writes nothing the application reads
StepWithoutEffect(step) ==
    /\ script.pc = step
    /\ script' = Completes(script, step)
    /\ UNCHANGED <<host, salt_file>>
    /\ AppUntouched

\* sys.exit(1) when sys.version_info < (3, 8)
check_python_version(version_ok) ==
    /\ script.pc = "check_python_version"
    /\ script' = IF version_ok THEN Completes(script, "check_python_version")
                 ELSE Exits([script EXCEPT !.ran = Append(@, "check_python_version")],
                            <<"SystemExit", "1">>)
    /\ UNCHANGED <<host, salt_file>>
    /\ AppUntouched

create_directories ==
    /\ script.pc = "create_directories"
    /\ script' = Completes(script, "create_directories")
    /\ host' = [host EXCEPT !.files = @ \cup {"database/", "configurations/", "logs/"}]
    /\ UNCHANGED salt_file
    /\ AppUntouched

\* pip succeeds, or CalledProcessError is caught and reported
install_dependencies(pip_ok) ==
    /\ pip_ok \in BOOLEAN
    /\ StepWithoutEffect("install_dependencies")

\* writes .env, with LICENSE_KEY=TRIAL-..., unless it exists
setup_environment ==
    /\ script.pc = "setup_environment"
    /\ script' = Completes(script, "setup_environment")
    /\ host' = [host EXCEPT !.files = @ \cup {".env"}]
    /\ UNCHANGED salt_file
    /\ AppUntouched

\* creates the tables (IF NOT EXISTS) unless the database file exists and
\* the answer to 'Reset?' is not y; no row is deleted either way, and the
\* question is asked only when the file exists
setup_database(response) ==
    /\ script.pc = "setup_database"
    /\ IF "database/sportai.db" \in host.files THEN TRUE ELSE response = "n"
    /\ script' = Completes(script, "setup_database")
    /\ host' = [host EXCEPT !.files = @ \cup {"database/sportai.db"}]
    /\ UNCHANGED salt_file
    /\ AppUntouched

\* the e-mail prompt: an empty answer gives admin@sportai.com
admin_email(answer) == IF answer = "" THEN SETUP_ADMIN_EMAIL ELSE answer

\* the prompts have been answered with an e-mail address and, twice, a
\* password of at least 8 characters; salt is the secrets.token_hex(32) drawn.
\* The row goes to the users table of database/sportai.db unless the e-mail
\* is already there (IntegrityError), and .salt is written
create_admin_user(answer, password, salt) ==
    /\ script.pc = "create_admin_user"
    /\ Len(chars(password)) >= min_length
    /\ LET email == admin_email(answer)
           row == [password_hash |-> hash_password(salt, password), role |-> "admin",
                   must_change_password |-> FALSE]
       IN  /\ script' = [Completes(script, "create_admin_user") EXCEPT
                            !.admin = <<email, password>>]
           /\ host' = [host EXCEPT
                         !.sqlite_users = IF email \in DOMAIN @ THEN @
                                          ELSE [e \in DOMAIN @ \cup {email} |->
                                                  IF e = email THEN row ELSE @[e]],
                         !.files = @ \cup {".salt"},
                         !.constructed = FALSE]
           /\ salt_file' = salt
    /\ AppUntouched

\* openssl writes the certificate, or CalledProcessError / FileNotFoundError
\* is caught
setup_ssl_certificates(openssl_ok) ==
    /\ script.pc = "setup_ssl_certificates"
    /\ script' = Completes(script, "setup_ssl_certificates")
    /\ host' = IF openssl_ok THEN [host EXCEPT !.files = @ \cup {"nginx/ssl/cert.pem"}]
               ELSE host
    /\ UNCHANGED salt_file
    /\ AppUntouched

\* writes configurations/demo_config.json when the answer is y
create_sample_data(response) ==
    /\ script.pc = "create_sample_data"
    /\ script' = Completes(script, "create_sample_data")
    /\ host' = IF response = "y"
               THEN [host EXCEPT !.files = @ \cup {"configurations/demo_config.json"}]
               ELSE host
    /\ UNCHANGED salt_file
    /\ AppUntouched

\* the three tests print their result; a failing test is caught
run_tests(tests_passed) ==
    /\ tests_passed \in BOOLEAN
    /\ StepWithoutEffect("run_tests")

print_next_steps == StepWithoutEffect("print_next_steps")

\* what main() does not catch: Ctrl-C at a prompt or during a step, or an
\* exception no step handles (EOFError at a prompt, OSError, sqlite3.Error)
Unhandled == {"KeyboardInterrupt", "Exception"}

Raises(kind) ==
    /\ script.pc \notin {"not_run", "exited"}
    /\ script' = Exits(IF script.pc = "reset_prompt" THEN script
                       ELSE [script EXCEPT !.ran = Append(@, script.pc)],
                       <<kind>>)
    /\ UNCHANGED <<host, salt_file>>
    /\ AppUntouched

SetupAnswers == {"", ADMIN_EMAIL}
SetupPasswords == {PW_STRONG, DEFAULT_PW}

SetupScript ==
    \/ \E skip_deps \in BOOLEAN, reset \in BOOLEAN : StartSetup(skip_deps, reset)
    \/ \E response \in {"y", "n"} : AnswerReset(response)
    \/ \E version_ok \in BOOLEAN : check_python_version(version_ok)
    \/ create_directories
    \/ \E pip_ok \in BOOLEAN : install_dependencies(pip_ok)
    \/ setup_environment
    \/ \E response \in {"y", "n"} : setup_database(response)
    \/ \E answer \in SetupAnswers, password \in SetupPasswords, salt \in Salts :
          create_admin_user(answer, password, salt)
    \/ \E openssl_ok \in BOOLEAN : setup_ssl_certificates(openssl_ok)
    \/ \E response \in {"y", "n"} : create_sample_data(response)
    \/ \E tests_passed \in BOOLEAN : run_tests(tests_passed)
    \/ print_next_steps
    \/ \E kind \in Unhandled : Raises(kind)

\* SportAIEnterpriseApp(): SecurityManager reads .salt or creates it,
\* ConfigurationManager loads the configuration or stores the default one,
\* DatabaseManager writes the default admin if the credential file is
\* missing, and validate_license() sets license_valid
StartApplication(new_salt) ==
    /\ script.pc \in {"not_run", "exited"}
    /\ ~host.constructed
    /\ LET salt == IF ".salt" \in host.files THEN salt_file ELSE new_salt
           valid_until == IF "config.json" \in host.files THEN host.valid_until
                          ELSE isoformat(now + 30 * DAY)
       IN  /\ salt_file' = salt
           /\ host' = [host EXCEPT
                         !.files = @ \cup AppFiles \cup {"database/", "configurations/"},
                         !.valid_until = valid_until,
                         !.tier = IF "config.json" \in host.files THEN @ ELSE "professional",
                         !.config = IF "config.json" \in host.files THEN @ ELSE default_config,
                         !.constructed = TRUE]
           /\ users_file' = IF "users.json" \in host.files THEN users_file
                            ELSE [e \in {ADMIN_EMAIL} |-> default_admin(salt, DEFAULT_PW)]
           /\ setup_file' = IF "users.json" \in host.files THEN setup_file ELSE TRUE
           /\ license_valid' = validate_license("license.key" \in host.files,
                                                valid_until, now).value
    /\ UNCHANGED <<now, ticks, session_state, audit_tail, ret, wrong_streak, inflight,
                   faults, call, module_loader, requested, script>>

\* the application is running on the files as they are
Running == script.pc \in {"not_run", "exited"} /\ host.constructed

\* the 'Login' button with the e-mail address and password given to
\* create_admin_user
LoginAsSetupAdmin(b) ==
    /\ Running
    /\ script.admin # None
    /\ RunLogin(b, script.admin[1], script.admin[2], TRUE)

NextSetup ==
    \/ SetupScript
    \/ \E new_salt \in Salts : StartApplication(new_salt)
    \/ LoginAsSetupAdmin(1)

SpecSetup == InitSetup /\ [][NextSetup]_vars

(***************************************************************************)
(* Properties                                                              *)
(***************************************************************************)
\* the supplied password is the stored user's password
IsPassword(e, p) == users_file[e].password_hash = hash_password(salt_file, p)

\* a lock is stored for e and this instant falls before its end
LockedNow(e) ==
    /\ e \in DOMAIN users_file
    /\ users_file[e].locked_until # None
    /\ now < users_file[e].locked_until[1]

\* a lock is stored for e and this instant falls at or after its end
LockExpired(e) ==
    /\ e \in DOMAIN users_file
    /\ users_file[e].locked_until # None
    /\ now >= users_file[e].locked_until[1]

\* C1: in sequential execution, the login attempt that is a user's 5th
\* consecutive failed verification stores locked_until = now + 900, and every
\* login attempt made strictly before a stored locked_until returns False
\* without verifying the password (the correct password included) and leaves
\* the store as it is.
C1_LockoutAfterFiveFailures ==
    [][\A e \in LoginEmails, p \in LoginPasswords :
          (ret'.op = "authenticate_user" /\ RunLogin(1, e, p, TRUE)) =>
             /\ (wrong_streak[e] = max_login_attempts - 1
                   /\ wrong_streak'[e] = max_login_attempts)
                => users_file'[e].locked_until = <<now + lockout_duration>>
             /\ LockedNow(e)
                => /\ ret'.value = "False"
                   /\ ~ret'.verified
                   /\ users_file' = users_file
                   /\ session_state' = session_state]_vars

\* C1 witness: a login attempt has just been rejected without verification
\* while the account it names is locked after 5 failed verifications
C1_Witness ==
    /\ ret.op = "authenticate_user" /\ ret.lock = "locked"
    /\ ret.value = "False" /\ ~ret.verified
    /\ \E e \in DOMAIN users_file :
          /\ wrong_streak[e] = max_login_attempts
          /\ LockedNow(e)
          /\ users_file[e].locked_until[1] - now = 1

\* C2: for a locked user, the first login attempt at or after locked_until
\* verifies the password: the correct one returns True and leaves
\* failed_attempts = 0 and locked_until = null, a wrong one returns False and
\* leaves failed_attempts = 1 and locked_until = null.
C2_FirstAttemptAfterExpiry ==
    [][\A e \in LoginEmails, p \in LoginPasswords :
          (ret'.op = "authenticate_user" /\ LockExpired(e) /\ RunLogin(1, e, p, TRUE)) =>
             /\ ret'.verified
             /\ users_file'[e].locked_until = None
             /\ IF IsPassword(e, p)
                  THEN ret'.value = "True" /\ users_file'[e].failed_attempts = 0
                  ELSE ret'.value = "False" /\ users_file'[e].failed_attempts = 1]_vars

\* C2 witness: a login attempt made exactly at locked_until has succeeded
C2_Witness ==
    /\ ret.op = "authenticate_user" /\ ret.lock = "expired" /\ ret.value = "True"
    /\ now = lockout_duration
    /\ users_file[session_state[1].user[1].email].locked_until = None

\* C3: in sequential execution the stored failed_attempts of every user is
\* the number of failed verifications since that user's last successful login
\* or lock expiry; a successful login stores failed_attempts = 0; and an
\* account carries a lock only when that number has reached 5.
C3_CounterCountsConsecutiveFailures ==
    /\ \A e \in DOMAIN users_file :
          /\ users_file[e].failed_attempts = wrong_streak[e]
          /\ users_file[e].locked_until # None
             => wrong_streak[e] = max_login_attempts
    /\ (ret.op = "authenticate_user" /\ ret.value = "True")
       => users_file[session_state[1].user[1].email].failed_attempts = 0

\* C3 witness: a user who failed, then logged in, then failed again stands
\* at one failure
C3_Witness ==
    /\ ret.op = "authenticate_user" /\ ret.value = "False" /\ ret.verified
    /\ \E e \in DOMAIN users_file :
          /\ users_file[e].failed_attempts = 1
          /\ users_file[e].role = "admin"
          /\ ~users_file[e].must_change_password
          /\ ~setup_file

\* the session state run() finds: no user key, a user that is None, or a dict
NoUserInSession(b) == ~session_state[b].has_user \/ session_state[b].user = None
SessionAge(b) == now - session_state[b].user[1].login_time

\* C4: a run that calls validate_session gets True for a session holding a
\* session_token exactly when now - login_time <= 3600, and False whenever
\* the session state holds no user or the user holds no session_token.
C4_ValidExactlyWithinTimeout ==
    [][(ret'.op = "run" /\ RunNoEvent(1)) =>
         /\ NoUserInSession(1) => ret'.vs = "False"
         /\ (~NoUserInSession(1)
               /\ "session_token" \notin DOMAIN session_state[1].user[1])
            => ret'.vs = "False"
         /\ (~NoUserInSession(1)
               /\ "session_token" \in DOMAIN session_state[1].user[1])
            => (ret'.vs = "True" <=> SessionAge(1) <= session_timeout)]_vars

\* the part of C4 about sessions that hold a user dict: valid up to and
\* including 3600 seconds of age, invalid from 3601
SessionBoundary ==
    [][(ret'.op = "run" /\ RunNoEvent(1) /\ ~NoUserInSession(1)) =>
         (ret'.vs = "True" <=> SessionAge(1) <= session_timeout)]_vars

\* validate_session has found the session of browser session b timed out
\* and no login has replaced it since
TimedOut(b) == session_state[b].has_user /\ session_state[b].user = None

\* C5: the run that finds the session timed out destroys it, and every later
\* run of that browser session gets False from validate_session and shows
\* the login page, without an exception, until a new login.
C5_TimedOutSessionShowsLogin ==
    [][RunNoEvent(1) =>
         /\ (~NoUserInSession(1) /\ SessionAge(1) > session_timeout)
            => /\ session_state'[1].user = None
               /\ ret'.vs = "False" /\ ret'.page = "login"
         /\ TimedOut(1)
            => /\ ret'.vs = "False" /\ ret'.raised = "" /\ ret'.page = "login"
               /\ TimedOut(1)']_vars

\* the actions of the audit entries appended by the latest handler
logged == {audit_tail[i].action : i \in DOMAIN audit_tail}

\* C6: every authenticate_user call returning False has appended at least
\* one audit entry; one returning True has appended LOGIN_SUCCESS; the
\* attempt that locks has appended ACCOUNT_LOCKED; a successful add_user
\* USER_CREATED; a logout LOGOUT; a detected timeout SESSION_TIMEOUT.
C6_EverySecurityEventIsLogged ==
    /\ (ret.op = "authenticate_user" /\ ret.value = "False") => logged # {}
    /\ (ret.op = "authenticate_user" /\ ret.value = "True")
       => "LOGIN_SUCCESS" \in logged
    /\ (ret.op = "authenticate_user" /\ ret.message = <<"Too many failed attempts">>)
       => "ACCOUNT_LOCKED" \in logged
    /\ (ret.op \in {"add_user", "register_user"} /\ ret.value = "True")
       => "USER_CREATED" \in logged
    /\ ret.op = "logout" => "LOGOUT" \in logged
    /\ (ret.op = "run" /\ ret.vs = "False" /\ TimedOut(1))
       => "SESSION_TIMEOUT" \in logged

\* the events of C6 other than the rejection of a locked account
LoggedExceptLockedRejection ==
    /\ (ret.op = "authenticate_user" /\ ret.value = "False" /\ ret.lock # "locked")
       => "LOGIN_FAILED" \in logged
    /\ (ret.op = "authenticate_user" /\ ret.value = "True")
       => "LOGIN_SUCCESS" \in logged
    /\ (ret.op = "authenticate_user" /\ ret.message = <<"Too many failed attempts">>)
       => "ACCOUNT_LOCKED" \in logged
    /\ (ret.op \in {"add_user", "register_user"} /\ ret.value = "True")
       => "USER_CREATED" \in logged
    /\ ret.op = "logout" => "LOGOUT" \in logged
    /\ (ret.op = "run" /\ ret.vs = "False" /\ TimedOut(1))
       => "SESSION_TIMEOUT" \in logged

\* both browser sessions' latest calls were wrong passwords for user e, each
\* verified against the same loaded record of e, which carried no lock
TwoFailuresFromOneRecord(e) ==
    /\ \A b \in Browsers :
          /\ inflight[b].pc = "returned" /\ inflight[b].result = "wrong"
          /\ inflight[b].email = e
          /\ inflight[b].users[e].locked_until = None
    /\ inflight[1].users[e] = inflight[2].users[e]

\* C7: when two wrong-password calls for one user each work on the record
\* loaded before the other saved, the stored failed_attempts ends at that
\* record's counter plus 1, not plus 2: the later save overwrites the earlier.
C7_LastWriteWins ==
    \A e \in DOMAIN users_file :
       TwoFailuresFromOneRecord(e)
       => users_file[e].failed_attempts = inflight[1].users[e].failed_attempts + 1

\* C7 witness: after four failures two calls loaded the record together and
\* both failed; six wrong passwords have been verified, the counter says 5
C7_Witness ==
    \E e \in DOMAIN users_file :
       /\ TwoFailuresFromOneRecord(e)
       /\ \E b \in Browsers : inflight[b].stale
       /\ wrong_streak[e] > max_login_attempts
       /\ users_file[e].failed_attempts = max_login_attempts

\* the strength rules as the specification lists them
TooShort(p) == Len(chars(p)) < min_length
Lacks(p, class) == \A i \in DOMAIN chars(p) : chars(p)[i] \notin class
MeetsAllRules(p) ==
    ~TooShort(p) /\ \A class \in {Upper, Lower, Digit, Special} : ~Lacks(p, class)
Violations(p) ==
    (IF TooShort(p) THEN {"Password must be at least 8 characters"} ELSE {})
    \cup (IF Lacks(p, Upper)
            THEN {"Password must contain at least one uppercase letter"} ELSE {})
    \cup (IF Lacks(p, Lower)
            THEN {"Password must contain at least one lowercase letter"} ELSE {})
    \cup (IF Lacks(p, Digit)
            THEN {"Password must contain at least one digit"} ELSE {})
    \cup (IF Lacks(p, Special)
            THEN {"Password must contain at least one special character"} ELSE {})

\* the rules each password of the model meets and breaks
rules_of == [p \in NewPasswords |->
               [meets |-> MeetsAllRules(p), violations |-> Violations(p)]]

\* the rule messages a returned message lists
Listed(message) == {message[i] : i \in DOMAIN message} \ {"\n"}

\* the step's handler has called add_user
ByAddUser == "add_user" \in ret'.called

AdminInputs == AdminNewEmails \X NewPasswords \X AdminNewRoles

\* Post(e, p, r) holds of every step that is a call add_user(e, p, r): from
\* the admin panel, or from a registration (role "user") that got past the
\* form's checks
AfterAddUser(Post(_, _, _)) ==
    /\ ret'.op = "add_user"
       => \A in \in AdminInputs :
             RunAddUser(1, in[1], in[2], in[3], TRUE) => Post(in[1], in[2], in[3])
    /\ (ret'.op = "register_user" /\ ByAddUser)
       => \A f \in RegistrationForms :
             RunRegister(1, f.email, f.password, f.password_confirm,
                         f.names_filled, f.terms, TRUE)
             => Post(f.email, f.password, "user")

CreatedOrDuplicate(e, p, r) ==
    /\ (e \notin DOMAIN users_file /\ rules_of[p].meets)
       => /\ ret'.value = "True"
          /\ e \in DOMAIN users_file'
          /\ users_file'[e].role = r
          /\ ~users_file'[e].must_change_password
          /\ users_file'[e].failed_attempts = 0
          /\ users_file'[e].locked_until = None
    /\ e \in DOMAIN users_file
       => /\ ret'.value = "False"
          /\ ret'.message = <<"User already exists">>
          /\ users_file' = users_file

\* C8: add_user with an email not in the store and a password meeting all
\* rules returns success and stores a record with the given role,
\* must_change_password false, failed_attempts 0 and locked_until null;
\* with an email already in the store it returns (False, "User already
\* exists") whatever the password and leaves the store unchanged.
C8_AddUserCreatesOrRejectsDuplicate == [][AfterAddUser(CreatedOrDuplicate)]_vars

\* C8 witness: a self-registration has just stored its user with role "user"
C8_Witness ==
    /\ ret.op = "register_user" /\ ret.value = "True"
    /\ E1 \in DOMAIN users_file
    /\ users_file[E1].role = "user"
    /\ users_file[E1].password_hash = hash_password(salt_file, PW_STRONG)

\* an email address without "@"
NoAt(e) == \A i \in DOMAIN chars(e) : chars(e)[i] # "@"

\* a weak password creates no user
WeakPasswordRejected ==
    /\ ret'.value = "False" /\ ret'.raised = ""
    /\ users_file' = users_file
    /\ "USER_CREATED" \notin logged'

\* the registration forms whose email has no "@"
MalformedForms == {f \in RegistrationForms : NoAt(f.email)}

\* a registration whose email has no "@" never calls add_user
MalformedEmailStopsAtForm ==
    ret'.op = "register_user" => \A f \in MalformedForms :
       RunRegister(1, f.email, f.password, f.password_confirm,
                   f.names_filled, f.terms, TRUE)
       => "add_user" \notin ret'.called

WeakListsRules(e, p, r) ==
    ~rules_of[p].meets
    => /\ WeakPasswordRejected
       /\ Listed(ret'.message) = rules_of[p].violations

WeakListsRulesForNewEmail(e, p, r) ==
    ~rules_of[p].meets
    => /\ WeakPasswordRejected
       /\ e \notin DOMAIN users_file
          => Listed(ret'.message) = rules_of[p].violations

\* C9: add_user with a password violating any rule returns (False, message
\* listing the violated rules) without an exception, leaves the store
\* unchanged and logs no USER_CREATED; a registration with a malformed email
\* never reaches add_user.
C9_WeakPasswordListsRules ==
    [][AfterAddUser(WeakListsRules) /\ MalformedEmailStopsAtForm]_vars

\* C9 as it holds: the message lists the violated rules when the email is
\* not yet in the store (an existing email is reported first, whatever the
\* password); the rest as claimed.
C9_WeakPasswordListsRulesForNewEmail ==
    [][AfterAddUser(WeakListsRulesForNewEmail) /\ MalformedEmailStopsAtForm]_vars

\* C9 witness: a registration with a new email and the password "abc" has
\* been turned down by add_user with the list of the four rules it breaks
C9_Witness ==
    /\ ret.op = "register_user" /\ "add_user" \in ret.called
    /\ ret.value = "False"
    /\ Listed(ret.message) = Violations(PW_WEAK)
    /\ Cardinality(Listed(ret.message)) = 4
    /\ E1 \notin DOMAIN users_file

\* C10: no step removes an email from the credential store, and add_user
\* leaves every record that was in the store as it was, also when its
\* load_users failed and returned the empty mapping.
C10_NoUserIsLostOrReplaced ==
    [][/\ DOMAIN users_file \subseteq DOMAIN users_file'
       /\ ByAddUser => \A e \in DOMAIN users_file : users_file'[e] = users_file[e]]_vars

\* C11: validate_license returns False when license.key does not exist or
\* now is later than valid_until; otherwise True, with the warning message
\* when fewer than 7 days remain and the plain message when 7 or more do;
\* an expiry that cannot be parsed gives (False, "Invalid license").
C11_LicenseValidity ==
    call.fn = "validate_license" =>
       LET license_exists == call.args[1]
           stored == call.args[2]
           t == call.args[3]
           out == call.out
       IN  /\ ~license_exists => ~out.value
           /\ (license_exists /\ ~parses(stored))
              => out = [value |-> FALSE, message |-> <<"Invalid license">>]
           /\ (license_exists /\ parses(stored))
              => LET remaining == stored[1] - t IN
                 /\ remaining < 0 => ~out.value
                 /\ remaining >= 0 => out.value
                 /\ (remaining >= 0 /\ remaining < 7 * DAY)
                    => out.message[1] = "License expires in "
                 /\ remaining >= 7 * DAY
                    => out.message[1] = "License valid until "

\* C11 witness: one second short of 7 days before expiry the license is
\* valid with the warning "expires in 6 days"
C11_Witness ==
    /\ call.fn = "validate_license"
    /\ call.args[1] /\ parses(call.args[2])
    /\ call.args[2][1] - call.args[3] = 7 * DAY - 1
    /\ call.out = [value |-> TRUE, message |-> <<"License expires in ", 6, " days">>]

\* C12: a feature a tier has access to is accessible to every higher tier
\* (starter, professional, enterprise); 'ai_modules' is accessible exactly
\* to professional and enterprise, 'multi_facility' exactly to enterprise;
\* a tier name outside the three has access to nothing.
C12_TiersAreNested ==
    call.fn = "check_feature_access" =>
       LET tier == call.args[1]
           feature == call.args[2]
           access == call.out
       IN  /\ (access /\ tier = "starter")
              => check_feature_access("professional", feature)
           /\ (access /\ tier = "professional")
              => check_feature_access("enterprise", feature)
           /\ feature = "ai_modules"
              => (access <=> tier \in {"professional", "enterprise"})
           /\ feature = "multi_facility" => (access <=> tier = "enterprise")
           /\ tier \notin {"starter", "professional", "enterprise"} => ~access

\* C12 witness: 'reporting', a starter feature, asked for under starter
C12_Witness ==
    /\ call.fn = "check_feature_access"
    /\ call.args = <<"starter", "reporting">>
    /\ call.out

\* the menu `tools` offers tool_name
Offers(tools, tool_name) == \E k \in DOMAIN tools : tools[k] = tool_name

\* C13: whatever the stored tier, the tools menu holds an AI tool only if
\* check_feature_access('ai_modules') is true for that tier.
C13_AIToolsOnlyWithFeatureAccess ==
    call.fn = "build_tools_menu" =>
       ((\E k \in DOMAIN call.out.tools : startswith(call.out.tools[k], ROBOT))
           => check_feature_access(call.args[1], "ai_modules"))

\* the entries of tool_categories build_tools_menu tries to import under a tier
Attempted(tier) ==
    {i \in DOMAIN tool_categories :
        ~(startswith(tool_categories[i][1], ROBOT) /\ tier = "starter")}

\* C19: safe_import of a module whose import fails raises nothing, returns
\* None and records the module in failed_modules; build_tools_menu raises
\* nothing, leaves out every tool whose import failed and offers every tool
\* it tried whose import succeeded.
C19_FailedImportIsDegraded ==
    /\ call.fn = "safe_import" =>
          LET loader == call.args[1]
              module_name == call.args[2]
              importing == call.args[3]
          IN  (module_name \notin loader.modules
                 /\ import_of(importing, module_name) # "ok")
                 => /\ call.out.raised = None
                    /\ call.out.module = None
                    /\ module_name \in call.out.loader.failed_modules
    /\ call.fn = "build_tools_menu" =>
          LET tier == call.args[1]
              importing == call.args[2]
          IN  /\ call.out.raised = None
              /\ \A i \in Attempted(tier) :
                    LET tool_name == tool_categories[i][1]
                        module_key == tool_categories[i][2]
                    IN  IF import_of(importing, module_key) = "ok"
                        THEN Offers(call.out.tools, tool_name)
                        ELSE /\ ~Offers(call.out.tools, tool_name)
                             /\ module_key \in call.out.loader.failed_modules

\* C19 witness: only central_dashboard fails to import (not an ImportError),
\* and the menu holds the other nineteen tools
C19_Witness ==
    /\ call.fn = "build_tools_menu"
    /\ call.args[1] = "professional"
    /\ call.args[2] = [failing |-> {"central_dashboard"}, kind |-> "Exception"]
    /\ call.out.loader.failed_modules = {"central_dashboard"}
    /\ Len(call.out.tools) = Len(tool_categories) - 1

\* C14: the list validate_password_strength returns holds the message of
\* each violated rule once and of no satisfied rule, whichever other rules
\* are violated, and the boolean is True exactly when the list is empty.
C14_EveryViolatedRuleIsListed ==
    call.fn = "validate_password_strength" =>
       LET password == call.args[1]
           errors == call.out.errors
       IN  /\ {errors[i] : i \in DOMAIN errors} = Violations(password)
           /\ Len(errors) = Cardinality(Violations(password))
           /\ call.out.valid <=> (errors = <<>>)
           /\ call.out.valid <=> MeetsAllRules(password)

\* C14 witness: a password of eight digits breaks three rules and all
\* three are listed
C14_Witness ==
    /\ call.fn = "validate_password_strength"
    /\ ~TooShort(call.args[1])
    /\ ~Lacks(call.args[1], Digit)
    /\ ~call.out.valid
    /\ call.out.errors = <<"Password must contain at least one uppercase letter",
                           "Password must contain at least one lowercase letter",
                           "Password must contain at least one special character">>

\* C15: under one salt, verify_password accepts the hash of a password
\* for exactly that password.
C15_VerifyAcceptsExactlyThePassword ==
    call.fn = "verify_password" =>
       (call.out <=> (call.args[3] = call.args[2]))

\* C15 witness: the hash of one strong password is verified against another
\* and rejected
C15_Witness ==
    /\ call.fn = "verify_password"
    /\ call.args[2] = PW_STRONG
    /\ call.args[3] = PW_OTHER
    /\ ~call.out

\* C16: once .salt exists, no step of the application or of the setup
\* script changes its content.
C16_SaltIsWrittenOnce ==
    [][".salt" \in host.files => salt_file' = salt_file]_vars

\* main() has returned after its last step
SetupCompleted ==
    /\ script.pc = "exited"
    /\ script.raised = None
    /\ script.ran # <<>>
    /\ script.ran[Len(script.ran)] = "print_next_steps"

\* C17: when the setup script has run to completion and the application
\* has been started, the login form is offered (the license is valid) and
\* logging in with the e-mail address and password given to
\* create_admin_user makes authenticate_user return True.
C17_SetupAdminCanLogIn ==
    [][(SetupCompleted /\ Running)
          => /\ license_valid
             /\ LoginAsSetupAdmin(1) => ret'.value = "True"]_vars

\* C20: when KeyboardInterrupt, an exception no step handles, or the
\* SystemExit of the version check leaves main(), the process ends with a
\* non-zero exit status, and until the script is started again no further
\* step runs.
C20_FailedSetupExitsNonZero ==
    [][/\ script'.raised # None
          => /\ script'.pc = "exited"
             /\ script'.status \notin {"none", "0"}
       /\ (script.raised # None /\ script'.runs = script.runs)
          => script'.ran = script.ran]_vars

\* C20 witness: create_admin_user was interrupted; it is the last step that
\* ran and the exit status is 1
C20_Witness ==
    /\ script.pc = "exited"
    /\ script.raised = <<"KeyboardInterrupt">>
    /\ script.ran # <<>>
    /\ script.ran[Len(script.ran)] = "create_admin_user"
    /\ script.status = "1"

\* C18: the logout step appends exactly one audit entry, LOGOUT for the
\* user of the session, and leaves a session state without a user for
\* which validate_session returns False; a session state without a user
\* becomes a valid session only by an authenticate_user call that returns
\* True.
C18_LogoutDestroysSession ==
    [][/\ (ret'.op = "logout" /\ RunLogout(1))
          => /\ Len(audit_tail') = 1
             /\ audit_tail'[1].action = "LOGOUT"
             /\ audit_tail'[1].user = session_state[1].user[1].email
             /\ ~session_state'[1].has_user
             /\ validate_session(session_state'[1], now').value = "False"
       /\ (~session_state[1].has_user
             /\ validate_session(session_state'[1], now').value = "True")
          => (ret'.op = "authenticate_user" /\ ret'.value = "True")]_vars

\* C18 witness: the logout step has just run and left no user
C18_Witness ==
    /\ ret.op = "logout"
    /\ logged = {"LOGOUT"}
    /\ ~session_state[1].has_user
    /\ validate_session(session_state[1], now).value = "False"

\* the step ends the call of authenticate_user or add_user under way in
\* browser session b
Returns(b) == CallUnderWay(b) /\ inflight'[b].pc = "returned"

\* C21: with the calls of two browser sessions interleaved, the rest of an
\* authenticate_user or add_user call for one user, its save included,
\* leaves every other user in the store, with the failed_attempts and
\* locked_until that user had, and adds no other user.
C21_OtherUsersKeepTheirRecords ==
    [][\A b \in Browsers :
          Returns(b) =>
             \A a \in (DOMAIN users_file \cup DOMAIN users_file') \ {inflight[b].email} :
                /\ a \in DOMAIN users_file /\ a \in DOMAIN users_file'
                /\ users_file'[a].failed_attempts = users_file[a].failed_attempts
                /\ users_file'[a].locked_until = users_file[a].locked_until]_vars

\* C22: every LOGIN_SUCCESS, LOGOUT and SESSION_TIMEOUT entry, and every
\* USER_CREATED entry written from the admin panel, carries the session_id
\* stored in the session of the logged-in user: the session the login has
\* just created, or the one the step found.
C22_AuditCarriesSessionId ==
    [][\A i \in DOMAIN audit_tail' :
          LET entry == audit_tail'[i] IN
          /\ entry.action = "LOGIN_SUCCESS"
             => entry.session_id = session_state'[1].user[1].session_id
          /\ entry.action \in {"LOGOUT", "SESSION_TIMEOUT"}
             => entry.session_id = session_state[1].user[1].session_id
          /\ (entry.action = "USER_CREATED" /\ ret'.op = "add_user")
             => entry.session_id = session_state[1].user[1].session_id]_vars

\* the step is a successful login of the default admin
DefaultAdminLogsIn ==
    /\ ret'.op = "authenticate_user" /\ ret'.value = "True"
    /\ session_state'[1].user[1].email = ADMIN_EMAIL

\* C23: the file with the initial admin password, written with the default
\* admin, is deleted by a successful login of the default admin and by no
\* other step (no failed login, no login of another account), and no step
\* creates it again.
C23_SetupFileUntilFirstAdminLogin ==
    [][/\ DefaultAdminLogsIn => ~setup_file'
       /\ setup_file' # setup_file => (setup_file /\ DefaultAdminLogsIn)]_vars

\* C23 witness: another account has been registered, and the default admin
\* has just logged in: the file is gone
C23_Witness ==
    /\ ret.op = "authenticate_user" /\ ret.value = "True"
    /\ session_state[1].user[1].email = ADMIN_EMAIL
    /\ session_state[1].user[1].must_change_password
    /\ E1 \in DOMAIN users_file
    /\ ~setup_file

\* C24: a login attempt with an email that is not in the store, or with the
\* email of an account that is locked at that instant, returns False without
\* verifying a password, saves nothing (the store, counters and
\* locked_until included, is as before) and leaves the session state as it
\* was.
C24_RejectedLoginChangesNothing ==
    [][\A e \in LoginEmails, p \in LoginPasswords :
          (/\ ret'.op = "authenticate_user"
           /\ IF e \notin DOMAIN users_file THEN TRUE ELSE LockedNow(e)
           /\ RunLogin(1, e, p, TRUE))
          => /\ ret'.value = "False"
             /\ ~ret'.verified
             /\ "save_users" \notin ret'.called
             /\ users_file' = users_file
             /\ session_state' = session_state
             /\ ~session_state'[1].has_user]_vars

\* C24 witness: a login with an email that is not in the store has just been
\* rejected while another account stands locked
C24_Witness ==
    /\ ret.op = "authenticate_user" /\ ret.value = "False"
    /\ ret.message = <<"Invalid credentials">>
    /\ ret.called = {"load_users"}
    /\ E1 \notin DOMAIN users_file
    /\ LockedNow(ADMIN_EMAIL)
    /\ ~session_state[1].has_user

\* C25: in sequential execution every stored record has a failed_attempts
\* between 0 and 5, and a locked_until that is set exactly when
\* failed_attempts is 5.
C25_CounterAndLockAgree ==
    \A e \in DOMAIN users_file :
       /\ users_file[e].failed_attempts \in 0..max_login_attempts
       /\ users_file[e].locked_until # None
          <=> users_file[e].failed_attempts = max_login_attempts

\* C25 witness: one account is locked at 5 failures while another stands at
\* 2 failures without a lock
C25_Witness ==
    /\ E1 \in DOMAIN users_file
    /\ users_file[ADMIN_EMAIL].failed_attempts = max_login_attempts
    /\ users_file[ADMIN_EMAIL].locked_until # None
    /\ users_file[E1].failed_attempts = 2
    /\ users_file[E1].locked_until = None

\* the session of browser session b holds a user whose must_change_password
\* flag is set
MustChange(b) ==
    /\ ~NoUserInSession(b)
    /\ session_state[b].user[1].must_change_password

\* C26: from a session whose must_change_password flag is set, no step
\* shows the dashboard or runs a handler of the dashboard (logout, admin
\* panel) except the password change that succeeds; a run that finds the
\* session valid shows the password-change form; the flag of the session is
\* cleared only by that change; and a change with matching passwords
\* succeeds and clears the flag in the stored record and in the session,
\* while one with differing passwords changes nothing.
C26_MustChangePasswordGate ==
    [][MustChange(1) =>
         LET email == session_state[1].user[1].email
             changed == ret'.op = "change_password" /\ ret'.value = "True"
         IN  /\ ret'.page = "dashboard" => changed
             /\ ret'.op \notin {"add_user", "logout"}
             /\ (ret'.op = "run" /\ ret'.vs = "True") => ret'.page = "change_password"
             /\ (~NoUserInSession(1)' /\ ~MustChange(1)') => changed
             /\ ret'.op = "change_password"
                => \A p \in ChangePasswords, c \in ChangePasswords :
                      RunChangePassword(1, p, c, TRUE)
                      => IF p = c
                         THEN /\ changed
                              /\ ~session_state'[1].user[1].must_change_password
                              /\ ~users_file'[email].must_change_password
                         ELSE /\ ret'.value = "False"
                              /\ ret'.page = "change_password"
                              /\ MustChange(1)'
                              /\ users_file' = users_file]_vars

\* C26 witness: the forced password change has just succeeded and the
\* dashboard is shown; neither the session nor the record carries the flag
C26_Witness ==
    /\ ret.op = "change_password" /\ ret.value = "True"
    /\ ret.page = "dashboard"
    /\ ~session_state[1].user[1].must_change_password
    /\ ~users_file[session_state[1].user[1].email].must_change_password

\* the passwords a stored hash can be the hash of, and whether each meets
\* the five strength rules
StorablePasswords == LoginPasswords \cup NewPasswords \cup ChangePasswords
meets_all_rules_of == [p \in StorablePasswords |-> MeetsAllRules(p)]

AdminSession(b) ==
    /\ ~NoUserInSession(b)
    /\ session_state[b].user[1].role = "admin"

\* the step stores a role other than 'user' for an email that was not in
\* the store or had another role
GrantsRole ==
    \E e \in DOMAIN users_file' :
       /\ users_file'[e].role # "user"
       /\ IF e \in DOMAIN users_file THEN users_file[e].role # users_file'[e].role
          ELSE TRUE

\* C28: while the license is invalid no step calls authenticate_user and no
\* step leaves a user in the session; and a step that stores an account with
\* a role other than 'user', or that changes the configuration, starts in a
\* session whose role is admin.
C28_LicenseAndAdminGates ==
    [][/\ ~license_valid
          => /\ ret'.op # "authenticate_user"
             /\ ~session_state'[1].has_user
       /\ GrantsRole => AdminSession(1)
       /\ host'.config # host.config => AdminSession(1)]_vars

\* C28 witness: an admin has created a second admin account and has just
\* renamed the facility
C28_Witness ==
    /\ ret.op = "save_facility_info"
    /\ host.config.facility.name = "Arena"
    /\ AdminSession(1)
    /\ E1 \in DOMAIN users_file
    /\ users_file[E1].role = "admin"

\* C29: after every safe_import call of a sequence, no module name is in
\* both modules and failed_modules, and get_module_health reports a total
\* that is loaded + failed and the number of distinct names requested; and a
\* call for a name that is in modules returns the cached module and leaves
\* the loader as it is, whatever importing it again would do.
C29_LoaderCountsEachModuleOnce ==
    [][call'.fn = "safe_import" =>
         LET module_name == call'.args[2]
             health == get_module_health(module_loader')
         IN  /\ module_loader'.modules \cap module_loader'.failed_modules = {}
             /\ health.total = health.loaded + health.failed
             /\ health.total = Cardinality(requested')
             /\ module_name \in module_loader.modules
                => /\ module_loader' = module_loader
                   /\ call'.out.module = <<module_name>>]_vars

\* C30: update_config for a section and key that both exist leaves a
\* configuration with the same sections and keys in which that key has the
\* new value and every other key the value it had, and a file equal to that
\* configuration; for a section or key that does not exist it leaves the
\* configuration and the file as they were.
C30_UpdateConfigChangesOneEntry ==
    call.fn = "update_config" =>
       LET config == call.args[1]
           file == call.args[2]
           section == call.args[3]
           key == call.args[4]
           value == call.args[5]
           out == call.out
       IN  IF section \in DOMAIN config /\ key \in DOMAIN config[section]
           THEN /\ out.config[section][key] = value
                /\ DOMAIN out.config = DOMAIN config
                /\ \A s \in DOMAIN config :
                      /\ DOMAIN out.config[s] = DOMAIN config[s]
                      /\ \A k \in DOMAIN config[s] :
                            (s # section \/ k # key) => out.config[s][k] = config[s][k]
                /\ out.file = out.config
           ELSE /\ out.config = config
                /\ out.file = file

\* C30 witness: the facility is renamed while the file held another
\* configuration; the file now equals the configuration in memory
C30_Witness ==
    /\ call.fn = "update_config"
    /\ call.args[3] = "facility" /\ call.args[4] = "name"
    /\ call.args[5] = "Arena"
    /\ call.args[1].facility.name = "Sports Complex"
    /\ call.args[2] # call.args[1]
    /\ call.out.config.facility.name = "Arena"
    /\ call.out.file = call.out.config

====
